---- MODULE Spec2Model ----
(***************************************************************************)
(* State-machine model of MumbleClient (voip-mumble/src/MumbleClient.cpp): *)
(* the connection life cycle driven by the connect and idle timers, the    *)
(* 500 ms idle-timer handler (channel, listen-channel and voice-target     *)
(* reconciliation, self-channel tracking, ping cadence), the facade        *)
(* setters and the Ping handler.                                           *)
(*                                                                         *)
(* Time is the value of msec(), advanced in steps of the idle period; a    *)
(* timer that is due fires before time advances again.  Every handler runs *)
(* on the loop thread (or under m_clientMutex) and is one atomic action.   *)
(* The state store (m_state), the message dispatcher and CryptState are    *)
(* not part of MumbleClient.cpp; the actions that feed them are modelled   *)
(* from the design document and are marked as such.                        *)
(***************************************************************************)
EXTENDS Integers, Sequences, FiniteSets, TLC

\* ------------------------------------------------------------------ bounds
MaxTicks == 60          \* msec() ranges over 0 .. MaxTicks * IdlePeriod
ShortTicks == 4         \* the same, where only the reconciliation is looked at
ListenTicks == 13       \* the same, where a connection is lost and made again
FlushTicks == 8         \* the same, where the TLS session is closed and made again
MaxAttempts == 3        \* TCP handles the connect timer may create
MaxChanId == 1          \* channel ids are 0 .. MaxChanId
MaxSession == 1         \* session ids are 1 .. MaxSession (0: not synced)
MaxVoiceTarget == 1     \* voice-target ids are 1 .. MaxVoiceTarget
MaxGood == 4            \* cap of the crypto "good" counters
MaxFlips == 3           \* cap of the count of m_hasUdp changes
CryptTicks == 6         \* IdlePeriods of msec() where datagrams are timed
RingSize == 3           \* _countof(m_udpPings), _countof(m_tcpPings): the ring, scaled down
MaxPings == 5           \* ping echoes counted by one ring
MaxRetry == 2           \* ticks in a row counted as retries
MaxVoice == 2           \* SendVoice calls
MaxDisconnects == 2   \* DisconnectAsync calls
ResolveTicks == 2      \* the same, where only the completion of disconnect() is looked at
HandshakeTicks == 10   \* the same, where the TLS handshake of a reconnect is looked at
DiscTicks == 6         \* msec() ranges over 0 .. DiscTicks * IdlePeriod where disconnect() is looked at
RecoverTicks == 15      \* ticks left for a reconnect to count as one that can be seen

\* ------------------------------------------------------- program constants
kPingInterval == 1000   \* constexpr auto kPingInterval = 1000ms
IdlePeriod == 500       \* m_idleTimer->start(500ms, 500ms)
IdleRetryDelay == 2000  \* m_idleTimer->start(2s, 500ms)
ConnectDelay == 50      \* m_connectTimer->start(50ms, 0s)
ReconnectDelay == 2500  \* m_connectTimer->start(2500ms, 0s)
JoinGrace == 20000      \* (msec() - m_timeSinceJoin) > 20s
MaxInFlightPings == 4   \* m_inFlightTcpPings >= 4
UdpGoodThreshold == 3   \* m_remoteGood > 3 && m_localGood > 3
UdpPingSize == 9        \* header byte + uint64 timestamp
kMaxUdpPacket == 1024   \* constexpr uint16_t kMaxUdpPacket = 1024
FineStep == 100         \* msec() between two datagrams, where these are timed
LongAgo == -2000        \* a time more than kPingInterval before the first msec() read
CryptTagSize == 4       \* m_udp->send(..., size + 4)

Off == -1               \* a stopped timer
NoChannel == -1         \* uint32_t(-1): findCh found no channel
NoTcp == 0              \* m_tcp is null

ChanIds == 0 .. MaxChanId
Sessions == 1 .. MaxSession
VoiceTargetIds == 1 .. MaxVoiceTarget
JoinNames == {"Root", "A"}          \* names given to SetChannel
ListenNames == {"A", "B"}           \* names given to Add/RemoveListenChannel
StoreNames == {"", "Root", "A", "B"} \* channel names the server may announce
UserNames == {"u1", "u2"}
GoodValues == {0, 1, MaxGood}       \* Ping.good values the server may report

VARIABLES
    now,                \* msec()
    work,               \* callbacks enqueued on the loop, oldest first
    addressSet,         \* m_connectionInfo.address.GetAddressFamily() != 0
    isConnecting,       \* m_connectionInfo.isConnecting
    isConnected,        \* m_connectionInfo.isConnected
    tcp,                \* m_tcp: NoTcp or the number of the current handle
    tcpState,           \* "none" | "connecting" | "open" | "dead"
    tls,                \* m_tlsClient: "none" | "handshake" | "active" | "closed"
    connectTimer,       \* due time of m_connectTimer, or Off
    idleTimer,          \* due time of m_idleTimer, or Off
    curManualChannel,
    lastManualChannel,
    curChannelListens,
    lastChannelListens,
    pendingVoiceTargetUpdates,
    channels,           \* m_state.GetChannels(): channel id -> name
    users,              \* m_state users: session id -> [name, channelId]
    session,            \* m_state.GetSession()
    inFlightTcpPings,
    nextPing,
    timeSinceJoin,
    hasUdp,
    cryptoInit,         \* m_crypto.IsInitialized()
    localGood,          \* m_crypto.m_localGood
    remoteGood,         \* m_crypto.m_remoteGood
    sent,               \* history: control messages handed to the TLS session by the last step
    udpSent,            \* history: sizes of the datagrams handed to the UDP socket by the last step
    step,               \* history: the handler the last step ran
    handles,            \* history: TCP handles created so far
    failure,            \* history: the failure of the connection not yet followed by a new TCP handle
    hSetChannel,        \* history: a SetChannel call was accepted since the last active tick
    hJoined,            \* history: the last active tick sent that call's join and nothing changed since
    hCreated,           \* history: "created" once a create for the desired channel was sent,
                        \* "joined" when the join followed it, else "no"
    hServerListens,     \* history: the listen deltas sent on this session, applied in order
    hAdded,             \* history: names given to AddListenChannel since the last active tick
    hFlapped,           \* history: names added and then removed since the last active tick
    hNetted,            \* history: the names of hFlapped the last active tick found outside
                        \* m_lastChannelListens
    hHeld,              \* history: the voice-target ids an inactive tick left queued
    hFlips,             \* history: how often m_hasUdp changed (up to MaxFlips)
    hQuiet,             \* history: active ticks since the last Ping or ConnectEvent
                        \* (up to MaxInFlightPings)
    hArmed,             \* history: since the connection failed, the connect timer was
                        \* armed at +ReconnectDelay with the idle timer stopped
    dcPc,               \* DisconnectAsync on the caller's thread: "idle" | "enqueue" | "clear"
    dcLeft,             \* the fields of m_connectionInfo that "m_connectionInfo = {}" has yet to write
    closeListeners,     \* completion events held by once<CloseEvent> listeners on m_tcp
    hCalls,             \* history: DisconnectAsync calls made
    hWorkRun,           \* history: DisconnectAsync work items the loop has run
    hResolved,          \* history: completion events set
    hDisc,              \* history: a DisconnectAsync work item ran and ConnectAsync was not called since
    hGreeted,           \* history: Version and Authenticate were sent on the current TLS session
    hVoice,             \* history: SendVoice calls made (up to MaxVoice)
    hVoiceSize,         \* the size argument of the last SendVoice call
    hVoiceUdp,          \* history: m_hasUdp as the last SendVoice call read it
    svPc,               \* SendVoice on the caller's thread: "idle", or "checked" once Send
                        \* has read isConnected as true and waits for m_clientMutex
    lastGoodUdp,        \* m_crypto.m_lastGoodUdp
    hUdpInSize,         \* history: the size of the last datagram given to HandleUDP
    hUdpIn,             \* history: what the last HandleUDP did with its datagram:
                        \* "none" | "uninitialized" | "oversize" | "gated" | "request" | "voice"
    hDecrypted,         \* history: the size the last HandleUDP gave to m_crypto.Decrypt
                        \* (0: no call)
    hCryptReq,          \* history: msec() at the last CryptSetup request a decrypt failure
                        \* triggered, or LongAgo
    hCryptCount,        \* history: the requests triggered so far
    hGoodAt,            \* history: msec() at the last datagram that decrypted, or LongAgo
    udpPingStats,       \* m_udpPingCount, m_udpPings, m_udpPingAverage, m_udpPingVariance
                        \* (and, as history, the slots of m_udpPings that hold a sample)
    tcpPingStats,       \* the same of m_tcpPing...
    hRetry              \* history: the active ticks in a row, up to MaxRetry, that found our
                        \* own session in a channel other than the desired one and sent a
                        \* join or a create

connVars == <<work, addressSet, isConnecting, isConnected, tcp, tcpState, tls,
              connectTimer, idleTimer>>
chanVars == <<curManualChannel, lastManualChannel>>
listenVars == <<curChannelListens, lastChannelListens>>
storeVars == <<channels, users, session>>
pingVars == <<inFlightTcpPings, nextPing, timeSinceJoin>>
udpVars == <<hasUdp, cryptoInit, localGood, remoteGood>>
outVars == <<sent, udpSent, step>>
histVars == <<handles, failure, hSetChannel, hJoined, hCreated, hServerListens, hAdded,
              hFlapped, hNetted, hHeld, hFlips, hQuiet, hArmed>>
discVars == <<dcPc, dcLeft, closeListeners, hCalls, hWorkRun, hResolved, hDisc>>
sessVars == <<hGreeted>>
voiceVars == <<svPc, hVoice, hVoiceSize, hVoiceUdp>>
cryptVars == <<lastGoodUdp, hUdpInSize, hUdpIn, hDecrypted, hCryptReq, hCryptCount, hGoodAt>>
statVars == <<udpPingStats, tcpPingStats>>
retryVars == <<hRetry>>
restVars == <<voiceVars, cryptVars, statVars, retryVars>>
moreVars == <<sessVars, restVars>>
extVars == <<discVars, moreVars>>
vars == <<now, connVars, chanVars, listenVars, pendingVoiceTargetUpdates, storeVars,
          pingVars, udpVars, outVars, histVars, extVars>>

\* --------------------------------------------------------------- messages
UserStateMove(s, c) == [type |-> "UserState", session |-> s, channel_id |-> c]
UserStateListen(s, adds, removes) ==
    [type |-> "UserState", session |-> s,
     listening_channel_add |-> adds, listening_channel_remove |-> removes]
ChannelStateCreate(name) ==
    [type |-> "ChannelState", parent |-> 0, name |-> name, temporary |-> TRUE]
\* sessions: the first sub-target; channel_targets: one further sub-target per id
VoiceTargetMsg(idx, sessions, chanTargets) ==
    [type |-> "VoiceTarget", id |-> idx, sessions |-> sessions,
     channel_targets |-> chanTargets]
PingMsg(t, good) == [type |-> "Ping", timestamp |-> t, good |-> good]

IsMove(m) == m.type = "UserState" /\ "channel_id" \in DOMAIN m
IsListen(m) == m.type = "UserState" /\ "listening_channel_add" \in DOMAIN m
IsCreate(m) == m.type = "ChannelState"
IsVoiceTarget(m) == m.type = "VoiceTarget"
IsPing(m) == m.type = "Ping"

Count(s, P(_)) == Cardinality({i \in DOMAIN s : P(s[i])})
Min(S) == CHOOSE x \in S : \A y \in S : x <= y

\* -------------------------------------------- the idle handler's pure parts
\* findCh: the id of the first channel (std::map order, lowest id) named ch
FindCh(ch, chans) ==
    IF \E id \in DOMAIN chans : chans[id] = ch
    THEN Min({id \in DOMAIN chans : chans[id] = ch})
    ELSE NoChannel

\* Send(buf, size): the message reaches m_tlsClient->send only when connected
\* and the TLS session is active
SendOk(connected, tlsState) == connected /\ tlsState = "active"
Send(connected, tlsState, msg) == IF SendOk(connected, tlsState) THEN <<msg>> ELSE <<>>

\* the idle handler's lockedIsActive()
IsActive(tlsState, connected) == tlsState = "active" /\ connected

\* channel reconciliation: the new m_lastManualChannel and the message built
ChannelMismatch(cur, last, chans) == cur # last /\ DOMAIN chans # {}
\* (mutation: m_lastManualChannel = m_curManualChannel left out)
ChannelStepKeepsLast(cur, last, chans, sess) ==
    IF ChannelMismatch(cur, last, chans)
    THEN [last |-> last,
          msgs |-> IF FindCh(cur, chans) # NoChannel
                   THEN <<UserStateMove(sess, FindCh(cur, chans))>>
                   ELSE <<ChannelStateCreate(cur)>>]
    ELSE [last |-> last, msgs |-> <<>>]
ChannelStep(cur, last, chans, sess) ==
    IF ChannelMismatch(cur, last, chans)
    THEN [last |-> cur,
          msgs |-> IF FindCh(cur, chans) # NoChannel
                   THEN <<UserStateMove(sess, FindCh(cur, chans))>>
                   ELSE <<ChannelStateCreate(cur)>>]
    ELSE [last |-> last, msgs |-> <<>>]

\* listen-channel reconciliation
RemoveChannelListens(curL, lastL) == lastL \ curL
AddChannelListens(curL, lastL) == curL \ lastL
RemoveChannelListenIds(curL, lastL, chans) ==
    {FindCh(n, chans) : n \in RemoveChannelListens(curL, lastL)} \ {NoChannel}
AddResolved(curL, lastL, chans) ==
    {n \in AddChannelListens(curL, lastL) : FindCh(n, chans) # NoChannel}
AddChannelListenIds(curL, lastL, chans) ==
    {FindCh(n, chans) : n \in AddResolved(curL, lastL, chans)}
\* (mutation: the adds taken from the whole current set, not from cur \ last)
ListenStepResends(curL, lastL, chans, sess) ==
    [last |-> (lastL \ RemoveChannelListens(curL, lastL)) \cup AddResolved(curL, lastL, chans),
     msgs |-> IF AddChannelListenIds(curL, {}, chans) # {}
                 \/ RemoveChannelListenIds(curL, lastL, chans) # {}
              THEN <<UserStateListen(sess, AddChannelListenIds(curL, {}, chans),
                                     RemoveChannelListenIds(curL, lastL, chans))>>
              ELSE <<>>]
ListenStep(curL, lastL, chans, sess) ==
    [last |-> (lastL \ RemoveChannelListens(curL, lastL)) \cup AddResolved(curL, lastL, chans),
     msgs |-> IF AddChannelListenIds(curL, lastL, chans) # {}
                 \/ RemoveChannelListenIds(curL, lastL, chans) # {}
              THEN <<UserStateListen(sess, AddChannelListenIds(curL, lastL, chans),
                                     RemoveChannelListenIds(curL, lastL, chans))>>
              ELSE <<>>]

\* pending voice-target flush.  A config holds sets of names, so the session
\* ids of the first sub-target and the channel sub-targets (one channel id each)
\* are sets as well.
TargetSessions(config, usrs) == {s \in DOMAIN usrs : usrs[s].name \in config.users}
\* (mutation: the channel loop leaves at the first channel of a name)
TargetChannelsFirst(config, chans) ==
    {FindCh(n, chans) : n \in config.channels} \ {NoChannel}
TargetChannels(config, chans) == {id \in DOMAIN chans : chans[id] \in config.channels}
VoiceTargetFor(idx, config, usrs, chans) ==
    VoiceTargetMsg(idx, TargetSessions(config, usrs), TargetChannels(config, chans))
\* one message per entry, in key order
RECURSIVE VoiceTargetMsgs(_, _, _, _)
VoiceTargetMsgs(pending, keys, usrs, chans) ==
    IF keys = {} THEN <<>>
    ELSE <<VoiceTargetFor(Min(keys), pending[Min(keys)], usrs, chans)>>
         \o VoiceTargetMsgs(pending, keys \ {Min(keys)}, usrs, chans)
\* (mutation: m_pendingVoiceTargetUpdates.clear() left out)
VoiceTargetStepKeeps(pending, usrs, chans) ==
    [pending |-> pending, msgs |-> VoiceTargetMsgs(pending, DOMAIN pending, usrs, chans)]
VoiceTargetStep(pending, usrs, chans) ==
    [pending |-> [x \in {} |-> 0],
     msgs |-> VoiceTargetMsgs(pending, DOMAIN pending, usrs, chans)]

\* the name of the channel the store has session sess in, "" if it has none
SelfChannelName(usrs, chans, sess) ==
    IF sess \in DOMAIN usrs /\ usrs[sess].channelId \in DOMAIN chans
    THEN chans[usrs[sess].channelId] ELSE ""
\* (mutation: self-channel tracking only while m_lastManualChannel is empty)
SelfTrackOnce(last, usrs, chans, sess) ==
    IF last = "" THEN SelfChannelName(usrs, chans, sess) ELSE last
\* (mutation: self-channel tracking left out)
SelfTrackOff(last, usrs, chans, sess) == last
\* self-channel tracking
SelfTrack(last, usrs, chans, sess) ==
    IF sess \in DOMAIN usrs /\ usrs[sess].channelId \in DOMAIN chans
       /\ chans[usrs[sess].channelId] # ""
    THEN chans[usrs[sess].channelId]
    ELSE last

\* ping cadence
PingDue(t, next) == t > next
\* (mutation: the test of the connection's age left out)
PingTimedOutAtAnyAge(inFlight, t, join) == inFlight >= MaxInFlightPings
\* (mutation: > instead of >= on the pings in flight)
PingTimedOutLate(inFlight, t, join) == inFlight > MaxInFlightPings /\ t - join > JoinGrace
PingTimedOut(inFlight, t, join) == inFlight >= MaxInFlightPings /\ t - join > JoinGrace

\* (mutation: SendUDP without the test of m_crypto.IsInitialized())
SendUDPUninitialized(init, size) ==
    IF size <= kMaxUdpPacket THEN <<size + CryptTagSize>> ELSE <<>>
\* SendUDP: the datagram sizes handed to the socket
SendUDP(init, size) ==
    IF init /\ size <= kMaxUdpPacket THEN <<size + CryptTagSize>> ELSE <<>>

\* (mutation: the fallback to TCP without the test of the connection's age)
UdpModeAtAnyAge(udp, rGood, lGood, t, join) ==
    IF udp /\ (rGood = 0 \/ lGood = 0) THEN FALSE
    ELSE IF ~udp /\ rGood > UdpGoodThreshold /\ lGood > UdpGoodThreshold THEN TRUE
    ELSE udp
\* HandlePing: the new m_hasUdp
UdpMode(udp, rGood, lGood, t, join) ==
    IF udp /\ (rGood = 0 \/ lGood = 0) /\ t - join > JoinGrace THEN FALSE
    ELSE IF ~udp /\ rGood > UdpGoodThreshold /\ lGood > UdpGoodThreshold THEN TRUE
    ELSE udp

\* ping statistics: m_...PingCount, the ring m_...Pings, and the average and
\* variance, kept as fractions <<numerator, denominator>>
Ring == 0 .. RingSize - 1
Deltas == {50, 90}      \* round-trip times, msec() - timestamp
NoStats == [count |-> 0, pings |-> [i \in Ring |-> 0], average |-> <<0, 1>>,
            variance |-> <<0, 1>>, held |-> {}]
RECURSIVE SumBelow(_, _)
\* pings[0] + ... + pings[n - 1]
SumBelow(pings, n) == IF n = 0 THEN 0 ELSE pings[n - 1] + SumBelow(pings, n - 1)
RECURSIVE SquaresBelow(_, _, _, _)
\* the sum over i < n of (pings[i] - num / den)^2, times den^2
SquaresBelow(pings, n, num, den) ==
    IF n = 0 THEN 0
    ELSE (pings[n - 1] * den - num) * (pings[n - 1] * den - num)
         + SquaresBelow(pings, n - 1, num, den)
\* "which ping this is in the history list", of a count already incremented
ThisPing(count) == IF count - 1 >= RingSize THEN RingSize - 1 ELSE count - 1
\* "move pings down"
MovedDown(pings, count) ==
    IF count - 1 >= RingSize
    THEN [i \in Ring |-> IF i < RingSize - 1 THEN pings[i + 1] ELSE pings[i]]
    ELSE pings
HeldMovedDown(held, count) ==
    IF count - 1 >= RingSize THEN {i - 1 : i \in held \ {0}} ELSE held
\* the ring with the sample stored and the statistics computed from it, on
\* the count already incremented
PingStored(st, timeDelta) ==
    LET thisPing == ThisPing(st.count)
        pings == [MovedDown(st.pings, st.count) EXCEPT ![thisPing] = timeDelta]
        avgCount == SumBelow(pings, thisPing)
    IN  [count |-> st.count,
         pings |-> pings,
         average |-> <<avgCount, thisPing + 1>>,
         variance |-> <<SquaresBelow(pings, thisPing, avgCount, thisPing + 1),
                        (thisPing + 1) * (thisPing + 1) * (thisPing + 1)>>,
         held |-> HeldMovedDown(st.held, st.count) \cup {thisPing}]
\* HandleVoice, ping branch
UdpPingEcho(st, timeDelta) == PingStored([st EXCEPT !.count = st.count + 1], timeDelta)
\* HandlePing, from m_tcpPingCount++ on
TcpPingCounted(st, timeDelta, hasTimestamp) ==
    IF hasTimestamp THEN PingStored([st EXCEPT !.count = st.count + 1], timeDelta)
    ELSE [st EXCEPT !.count = st.count + 1]

\* ------------------------------------------------------------------ state
Empty == [x \in {} |-> 0]
Without(f, k) == [x \in DOMAIN f \ {k} |-> f[x]]
With(f, k, v) == [x \in DOMAIN f \cup {k} |-> IF x = k THEN v ELSE f[x]]

InitWith(udp) ==
    /\ now = 0 /\ work = <<>>
    /\ addressSet = FALSE /\ isConnecting = FALSE /\ isConnected = FALSE
    /\ tcp = NoTcp /\ tcpState = "none" /\ tls = "none"
    /\ connectTimer = Off /\ idleTimer = Off
    /\ curManualChannel = "" /\ lastManualChannel = ""
    /\ curChannelListens = {} /\ lastChannelListens = {}
    /\ pendingVoiceTargetUpdates = Empty
    /\ channels = Empty /\ users = Empty /\ session = 0
    /\ inFlightTcpPings = 0 /\ nextPing = 0 /\ timeSinceJoin = 0
    /\ hasUdp = udp /\ cryptoInit = FALSE /\ localGood = 0 /\ remoteGood = 0
    /\ sent = <<>> /\ udpSent = <<>> /\ step = "Init"
    /\ handles = 0 /\ failure = "none"
    /\ hSetChannel = FALSE /\ hJoined = FALSE /\ hCreated = "no"
    /\ hServerListens = {}
    /\ hAdded = {} /\ hFlapped = {} /\ hNetted = {} /\ hHeld = {}
    /\ hFlips = 0 /\ hQuiet = 0 /\ hArmed = FALSE
    /\ dcPc = "idle" /\ dcLeft = {} /\ closeListeners = 0
    /\ hCalls = 0 /\ hWorkRun = 0 /\ hResolved = 0 /\ hDisc = FALSE
    /\ hGreeted = FALSE
    /\ svPc = "idle" /\ hVoice = 0 /\ hVoiceSize = 0 /\ hVoiceUdp = FALSE
    /\ lastGoodUdp = LongAgo /\ hUdpInSize = 0 /\ hUdpIn = "none" /\ hDecrypted = 0 /\ hCryptReq = LongAgo
    /\ hCryptCount = 0 /\ hGoodAt = LongAgo
    /\ udpPingStats = NoStats /\ tcpPingStats = NoStats
    /\ hRetry = 0

Init == \E udp \in BOOLEAN : InitWith(udp)

\* a step that hands nothing to the TLS session or the UDP socket
Silent(name) == step' = name /\ sent' = <<>> /\ udpSent' = <<>>
\* the store changed: the join of the last tick is no longer "the last change"
StoreChanged ==
    /\ hJoined' = FALSE
    /\ UNCHANGED <<handles, failure, hSetChannel, hCreated, hServerListens, hAdded, hFlapped, hNetted, hHeld, hFlips, hQuiet, hArmed, extVars>>

\* ------------------------------------------------------------- the facade
\* ConnectAsync, caller's part (called while no address is configured)
ConnectAsync ==
    /\ ~addressSet /\ work = <<>> /\ dcPc = "idle"
    /\ addressSet' = TRUE
    /\ IF curManualChannel = ""
       THEN curManualChannel' = "Root" /\ UNCHANGED lastManualChannel
       ELSE lastManualChannel' = "Root" /\ UNCHANGED curManualChannel
    /\ work' = Append(work, "connect")
    /\ Silent("ConnectAsync")
    /\ hDisc' = FALSE
    /\ tcpPingStats' = NoStats
    /\ UNCHANGED <<now, isConnecting, isConnected, tcp, tcpState, tls, connectTimer,
                   idleTimer, listenVars, pendingVoiceTargetUpdates, storeVars, pingVars,
                   udpVars, histVars, dcPc, dcLeft, closeListeners, hCalls, hWorkRun,
                   hResolved, sessVars, voiceVars, cryptVars, udpPingStats, retryVars>>

\* ConnectAsync, the callback it enqueues on the loop
ConnectWork ==
    /\ work # <<>> /\ Head(work) = "connect"
    /\ work' = Tail(work)
    /\ connectTimer' = now + ConnectDelay
    /\ Silent("ConnectWork")
    /\ UNCHANGED <<now, addressSet, isConnecting, isConnected, tcp, tcpState, tls,
                   idleTimer, chanVars, listenVars, pendingVoiceTargetUpdates, storeVars,
                   pingVars, udpVars, histVars, extVars>>

SetChannelAccepted(name) == isConnected /\ name # curManualChannel
SetChannel(name) ==
    /\ curManualChannel' = IF SetChannelAccepted(name) THEN name ELSE curManualChannel
    /\ hSetChannel' = (hSetChannel \/ SetChannelAccepted(name))
    /\ hJoined' = (hJoined /\ ~SetChannelAccepted(name))
    /\ hCreated' = IF SetChannelAccepted(name) THEN "no" ELSE hCreated
    /\ Silent("SetChannel")
    /\ UNCHANGED <<now, connVars, lastManualChannel, listenVars, pendingVoiceTargetUpdates,
                   storeVars, pingVars, udpVars, handles, failure, hServerListens,
                   hAdded, hFlapped, hNetted, hHeld, hFlips, hQuiet, hArmed, extVars>>

AddListenChannel(name) ==
    /\ curChannelListens' = curChannelListens \cup {name}
    /\ hAdded' = hAdded \cup {name}
    /\ hFlapped' = hFlapped \ {name}
    /\ Silent("AddListenChannel")
    /\ UNCHANGED <<now, connVars, chanVars, lastChannelListens, pendingVoiceTargetUpdates,
                   storeVars, pingVars, udpVars, handles, failure, hSetChannel, hJoined,
                   hCreated, hServerListens, hNetted, hHeld, hFlips, hQuiet, hArmed, extVars>>

RemoveListenChannel(name) ==
    /\ curChannelListens' = curChannelListens \ {name}
    /\ hFlapped' = IF name \in hAdded THEN hFlapped \cup {name} ELSE hFlapped
    /\ Silent("RemoveListenChannel")
    /\ UNCHANGED <<now, connVars, chanVars, lastChannelListens, pendingVoiceTargetUpdates,
                   storeVars, pingVars, udpVars, handles, failure, hSetChannel, hJoined,
                   hCreated, hServerListens, hAdded, hNetted, hHeld, hFlips, hQuiet, hArmed, extVars>>

UpdateVoiceTarget(idx, config) ==
    /\ pendingVoiceTargetUpdates' = With(pendingVoiceTargetUpdates, idx, config)
    /\ Silent("UpdateVoiceTarget")
    /\ UNCHANGED <<now, connVars, chanVars, listenVars, storeVars, pingVars, udpVars,
                   histVars, extVars>>

\* --------------------------------------------------- timers and TCP events
TimerDue(timer) == timer # Off /\ timer <= now
\* the loop runs the timers that are due before it polls the sockets: what a
\* socket delivers at an instant comes after the timers of that instant
TimersRun == ~TimerDue(connectTimer) /\ ~TimerDue(idleTimer)

\* m_connectTimer's TimerEvent handler (one-shot timer)
ConnectTimerFire ==
    /\ TimerDue(connectTimer)
    /\ isConnecting \/ handles < MaxAttempts
    /\ connectTimer' = Off
    /\ IF isConnecting
       THEN UNCHANGED <<isConnecting, tcp, tcpState, storeVars, handles, failure,
                        hServerListens, hJoined, hCreated>>
       ELSE /\ isConnecting' = TRUE
            /\ tcp' = handles + 1             \* the old handle, if any, is shut down and closed
            /\ tcpState' = "connecting"
            /\ handles' = handles + 1
            /\ failure' = "none"
            /\ channels' = Empty /\ users' = Empty /\ session' = 0   \* m_state.Reset()
            /\ hServerListens' = {}           \* the next session starts with no listens
            /\ hJoined' = FALSE /\ hCreated' = "no"
    /\ Silent("ConnectTimerFire")
    /\ UNCHANGED <<now, work, addressSet, isConnected, tls, idleTimer, chanVars, listenVars,
                   pendingVoiceTargetUpdates, pingVars, udpVars, hSetChannel, hAdded,
                   hFlapped, hNetted, hHeld, hFlips, hQuiet, hArmed, extVars>>

\* m_tcp's ConnectEvent handler
ConnectEvent ==
    /\ TimersRun /\ tcpState = "connecting"
    /\ tcpState' = "open"
    /\ isConnecting' = FALSE
    /\ tls' = "handshake"
    /\ timeSinceJoin' = now
    /\ inFlightTcpPings' = 0
    /\ isConnected' = TRUE
    /\ Silent("ConnectEvent")
    /\ hQuiet' = 0
    /\ hGreeted' = FALSE
    /\ UNCHANGED <<now, work, addressSet, tcp, connectTimer, idleTimer, chanVars, listenVars,
                   pendingVoiceTargetUpdates, storeVars, nextPing, udpVars, handles, failure,
                   hSetChannel, hJoined, hCreated, hServerListens, hAdded, hFlapped, hNetted,
                   hHeld, hFlips, hArmed, discVars, restVars>>

\* what the ErrorEvent and EndEvent handlers do
TcpFailed(name) ==
    /\ tcpState' = "dead"
    /\ isConnecting' = FALSE
    /\ idleTimer' = now + IdleRetryDelay
    /\ isConnected' = FALSE
    /\ failure' = name
    /\ hArmed' = (failure # "none" /\ hArmed)
    /\ Silent(name)
    /\ UNCHANGED <<now, work, addressSet, tcp, tls, connectTimer, chanVars, listenVars,
                   pendingVoiceTargetUpdates, storeVars, pingVars, udpVars, handles,
                   hSetChannel, hJoined, hCreated, hServerListens, hAdded, hFlapped,
                   hNetted, hHeld, hFlips, hQuiet, extVars>>

ErrorEvent == TimersRun /\ tcpState \in {"connecting", "open"} /\ TcpFailed("ErrorEvent")
EndEvent == TimersRun /\ tcpState = "open" /\ TcpFailed("EndEvent")

\* OnActivated: the TLS handshake of the current connection completed
Hello == <<[type |-> "Version"], [type |-> "Authenticate", opus |-> TRUE]>>
\* (mutation: Authenticate sent before Version)
OnActivatedAuthFirst ==
    /\ TimersRun /\ tcpState = "open" /\ tls = "handshake"
    /\ tls' = "active"
    /\ idleTimer' = now + IdlePeriod
    /\ sent' = Send(isConnected, "active", [type |-> "Authenticate", opus |-> TRUE])
               \o Send(isConnected, "active", [type |-> "Version"])
    /\ udpSent' = <<>> /\ step' = "OnActivated"
    /\ hGreeted' = (sent' = Hello)
    /\ UNCHANGED <<now, work, addressSet, isConnecting, isConnected, tcp, tcpState,
                   connectTimer, chanVars, listenVars, pendingVoiceTargetUpdates, storeVars,
                   pingVars, udpVars, histVars, discVars, restVars>>
OnActivated ==
    /\ TimersRun /\ tcpState = "open" /\ tls = "handshake"
    /\ tls' = "active"
    /\ idleTimer' = now + IdlePeriod
    /\ sent' = Send(isConnected, "active", [type |-> "Version"])
               \o Send(isConnected, "active", [type |-> "Authenticate", opus |-> TRUE])
    /\ udpSent' = <<>> /\ step' = "OnActivated"
    /\ hGreeted' = (sent' = Hello)
    /\ UNCHANGED <<now, work, addressSet, isConnecting, isConnected, tcp, tcpState,
                   connectTimer, chanVars, listenVars, pendingVoiceTargetUpdates, storeVars,
                   pingVars, udpVars, histVars, discVars, restVars>>

\* OnAlert with a fatal or close-notify alert (the session is closed by it)
OnAlert ==
    /\ TimersRun /\ tcpState = "open" /\ tls \in {"handshake", "active"}
    /\ tls' = "closed"
    /\ isConnecting' = FALSE
    /\ isConnected' = FALSE
    /\ connectTimer' = now + ReconnectDelay
    /\ failure' = "OnAlert"
    /\ hArmed' = (idleTimer = Off \/ (failure # "none" /\ hArmed))
    /\ Silent("OnAlert")
    /\ UNCHANGED <<now, work, addressSet, tcp, tcpState, idleTimer, chanVars, listenVars,
                   pendingVoiceTargetUpdates, storeVars, pingVars, udpVars, handles,
                   hSetChannel, hJoined, hCreated, hServerListens, hAdded, hFlapped,
                   hNetted, hHeld, hFlips, hQuiet, extVars>>

\* ------------------------------------------------------- DisconnectAsync
ConnectionInfoFields == {"address", "isConnecting", "isConnected"}

\* DisconnectAsync on the caller's thread: m_tlsClient->close() under m_clientMutex
DisconnectAsync ==
    /\ dcPc = "idle" /\ hCalls < MaxDisconnects
    /\ tls' = IF tls \in {"handshake", "active"} THEN "closed" ELSE tls
    /\ dcPc' = "enqueue" /\ hCalls' = hCalls + 1
    /\ Silent("DisconnectAsync")
    /\ UNCHANGED <<now, work, addressSet, isConnecting, isConnected, tcp, tcpState,
                   connectTimer, idleTimer, chanVars, listenVars, pendingVoiceTargetUpdates,
                   storeVars, pingVars, udpVars, histVars, dcLeft, closeListeners,
                   hWorkRun, hResolved, hDisc, moreVars>>

\* DisconnectAsync on the caller's thread: m_loop->EnqueueCallback(...)
DisconnectEnqueue ==
    /\ dcPc = "enqueue"
    /\ work' = Append(work, "disconnect")
    /\ dcPc' = "clear" /\ dcLeft' = ConnectionInfoFields
    /\ Silent("DisconnectEnqueue")
    /\ UNCHANGED <<now, addressSet, isConnecting, isConnected, tcp, tcpState, tls,
                   connectTimer, idleTimer, chanVars, listenVars, pendingVoiceTargetUpdates,
                   storeVars, pingVars, udpVars, histVars, closeListeners, hCalls,
                   hWorkRun, hResolved, hDisc, moreVars>>

\* DisconnectAsync on the caller's thread: m_connectionInfo = {}, written with no
\* lock held while the loop thread reads and writes the same fields; the
\* fields are written one at a time, in any order
DisconnectClear(field) ==
    /\ dcPc = "clear" /\ field \in dcLeft
    /\ addressSet' = IF field = "address" THEN FALSE ELSE addressSet
    /\ isConnecting' = IF field = "isConnecting" THEN FALSE ELSE isConnecting
    /\ isConnected' = IF field = "isConnected" THEN FALSE ELSE isConnected
    /\ dcLeft' = dcLeft \ {field}
    /\ dcPc' = IF dcLeft' = {} THEN "idle" ELSE "clear"
    /\ Silent("DisconnectClear")
    /\ UNCHANGED <<now, work, tcp, tcpState, tls, connectTimer, idleTimer, chanVars,
                   listenVars, pendingVoiceTargetUpdates, storeVars, pingVars, udpVars,
                   histVars, closeListeners, hCalls, hWorkRun, hResolved, hDisc, moreVars>>

\* (mutation: the completion event set by the work item itself, socket or not)
DisconnectWorkSetsAtOnce ==
    /\ work # <<>> /\ Head(work) = "disconnect"
    /\ work' = Tail(work)
    /\ idleTimer' = Off
    /\ connectTimer' = Off
    /\ tcpState' = IF tcp = NoTcp THEN tcpState
                   ELSE IF tcpState \in {"connecting", "cancelling"}
                   THEN "cancelling" ELSE "closing"
    /\ hResolved' = hResolved + 1
    /\ hWorkRun' = hWorkRun + 1
    /\ hDisc' = TRUE
    /\ Silent("DisconnectWork")
    /\ UNCHANGED <<now, addressSet, isConnecting, isConnected, tcp, tls, chanVars,
                   listenVars, pendingVoiceTargetUpdates, storeVars, pingVars, udpVars,
                   histVars, dcPc, dcLeft, hCalls, closeListeners, moreVars>>

\* the callback DisconnectAsync enqueues on the loop.  Closing a handle whose
\* connect request is pending cancels the request (its callback runs with
\* UV_ECANCELED before the close callback).
DisconnectWork ==
    /\ work # <<>> /\ Head(work) = "disconnect"
    /\ work' = Tail(work)
    /\ idleTimer' = Off
    /\ connectTimer' = Off
    /\ IF tcp # NoTcp
       THEN /\ closeListeners' = closeListeners + 1
            /\ tcpState' = IF tcpState \in {"connecting", "cancelling"}
                           THEN "cancelling" ELSE "closing"
            /\ UNCHANGED hResolved
       ELSE /\ hResolved' = hResolved + 1
            /\ UNCHANGED <<closeListeners, tcpState>>
    /\ hWorkRun' = hWorkRun + 1
    /\ hDisc' = TRUE
    /\ Silent("DisconnectWork")
    /\ UNCHANGED <<now, addressSet, isConnecting, isConnected, tcp, tls, chanVars,
                   listenVars, pendingVoiceTargetUpdates, storeVars, pingVars, udpVars,
                   histVars, dcPc, dcLeft, hCalls, moreVars>>

\* m_tcp's ErrorEvent handler, run for the connect request the close cancelled
CancelledEvent ==
    /\ tcpState = "cancelling"
    /\ tcpState' = "closing"
    /\ isConnecting' = FALSE
    /\ idleTimer' = now + IdleRetryDelay
    /\ isConnected' = FALSE
    /\ failure' = "ErrorEvent"
    /\ hArmed' = (failure # "none" /\ hArmed)
    /\ Silent("CancelledEvent")
    /\ UNCHANGED <<now, work, addressSet, tcp, tls, connectTimer, chanVars, listenVars,
                   pendingVoiceTargetUpdates, storeVars, pingVars, udpVars, handles,
                   hSetChannel, hJoined, hCreated, hServerListens, hAdded, hFlapped,
                   hNetted, hHeld, hFlips, hQuiet, extVars>>

\* the once<CloseEvent> listeners DisconnectAsync registered on m_tcp
CloseEvent ==
    /\ tcpState = "closing"
    /\ tcp' = NoTcp /\ tcpState' = "none"
    /\ hResolved' = hResolved + closeListeners
    /\ closeListeners' = 0
    /\ Silent("CloseEvent")
    /\ UNCHANGED <<now, work, addressSet, isConnecting, isConnected, tls, connectTimer,
                   idleTimer, chanVars, listenVars, pendingVoiceTargetUpdates, storeVars,
                   pingVars, udpVars, histVars, dcPc, dcLeft, hCalls, hWorkRun, hDisc, moreVars>>

\* ------------------------------------------------------------ SendVoice
\* SendVoice runs on its caller's thread (SendUDP has to enqueue m_udp->send
\* on the loop).  Without UDP it is Send(UDPTunnel): Send reads isConnected
\* before it takes m_clientMutex, and the loop's handlers write isConnected
\* without the mutex, so the read and the locked part are two steps.
VoiceSizes == {1, kMaxUdpPacket - CryptTagSize, kMaxUdpPacket - CryptTagSize + 1,
               kMaxUdpPacket, kMaxUdpPacket + 1}
UDPTunnel(size) == [type |-> "UDPTunnel", size |-> size]
Untouched ==
    UNCHANGED <<now, connVars, chanVars, listenVars, pendingVoiceTargetUpdates, storeVars,
                pingVars, udpVars, histVars, discVars, sessVars, cryptVars, statVars,
                retryVars>>
\* (mutation: the return after Send(UDPTunnel) left out)
SendVoiceNoReturn(size) ==
    /\ svPc = "idle" /\ hVoice < MaxVoice
    /\ hVoice' = hVoice + 1
    /\ hVoiceSize' = size /\ hVoiceUdp' = hasUdp
    /\ step' = "SendVoice" /\ sent' = <<>>
    /\ svPc' = IF ~hasUdp /\ isConnected THEN "checked" ELSE "idle"
    /\ udpSent' = SendUDP(cryptoInit, size)
    /\ Untouched
SendVoice(size) ==
    /\ svPc = "idle" /\ hVoice < MaxVoice
    /\ hVoice' = hVoice + 1
    /\ hVoiceSize' = size /\ hVoiceUdp' = hasUdp
    /\ step' = "SendVoice" /\ sent' = <<>>
    /\ IF ~hasUdp
       THEN /\ svPc' = IF isConnected THEN "checked" ELSE "idle"
            /\ udpSent' = <<>>
       ELSE /\ udpSent' = SendUDP(cryptoInit, size)
            /\ UNCHANGED svPc
    /\ Untouched
\* Send under m_clientMutex
SendLocked ==
    /\ svPc = "checked"
    /\ svPc' = "idle"
    /\ sent' = IF tls = "active" THEN <<UDPTunnel(hVoiceSize)>> ELSE <<>>
    /\ udpSent' = <<>> /\ step' = "SendLocked"
    /\ UNCHANGED <<hVoice, hVoiceSize, hVoiceUdp>>
    /\ Untouched

\* ------------------------------------------------------------ HandleUDP
UdpInSizes == {UdpPingSize + CryptTagSize, kMaxUdpPacket, kMaxUdpPacket + 1}
CryptSetupRequest == [type |-> "CryptSetup"]
\* m_crypto.Decrypt when it succeeds: the counter and the time it leaves
DecryptGood(t, good) == [lastGoodUdp |-> t, localGood |-> good + 1]
\* the test that gates the request
CryptGateOpen(t, lastGood) == t - lastGood > kPingInterval
\* HandleUDP with a datagram of the given size that decrypts (ok) or does not;
\* gateOpen: the test on m_lastGoodUdp, stamp: what a request leaves there
\* voice: what HandleVoice does to the statistics of the UDP pings
HandleUDPWith(size, ok, gateOpen, stamp, voice) ==
    /\ TimersRun
    /\ ok /\ cryptoInit /\ size <= kMaxUdpPacket => localGood < MaxGood
    /\ step' = "HandleUDP" /\ udpSent' = <<>> /\ hUdpInSize' = size
    /\ IF cryptoInit /\ size <= kMaxUdpPacket /\ ok THEN voice ELSE UNCHANGED statVars
    /\ IF ~cryptoInit
       THEN /\ hUdpIn' = "uninitialized" /\ hDecrypted' = 0 /\ sent' = <<>>
            /\ UNCHANGED <<lastGoodUdp, localGood, hCryptReq, hCryptCount, hGoodAt>>
       ELSE IF size > kMaxUdpPacket
       THEN /\ hUdpIn' = "oversize" /\ hDecrypted' = 0 /\ sent' = <<>>
            /\ UNCHANGED <<lastGoodUdp, localGood, hCryptReq, hCryptCount, hGoodAt>>
       ELSE IF ~ok
       THEN /\ hDecrypted' = size
            /\ IF gateOpen
               THEN /\ lastGoodUdp' = stamp
                    /\ sent' = Send(isConnected, tls, CryptSetupRequest)
                    /\ hUdpIn' = "request" /\ hCryptReq' = now
                    /\ hCryptCount' = hCryptCount + 1
               ELSE /\ hUdpIn' = "gated" /\ sent' = <<>>
                    /\ UNCHANGED <<lastGoodUdp, hCryptReq, hCryptCount>>
            /\ UNCHANGED <<localGood, hGoodAt>>
       ELSE /\ hDecrypted' = size /\ hUdpIn' = "voice" /\ sent' = <<>>
            /\ lastGoodUdp' = DecryptGood(now, localGood).lastGoodUdp
            /\ localGood' = DecryptGood(now, localGood).localGood
            /\ hGoodAt' = now
            /\ UNCHANGED <<hCryptReq, hCryptCount>>
    /\ UNCHANGED <<now, connVars, chanVars, listenVars, pendingVoiceTargetUpdates, storeVars,
                   pingVars, hasUdp, cryptoInit, remoteGood, histVars, discVars, sessVars,
                   voiceVars, retryVars>>
\* (mutation: >= in the gate)
HandleUDPGateInclusive(size, ok) ==
    HandleUDPWith(size, ok, now - lastGoodUdp >= kPingInterval, now, UNCHANGED statVars)
\* (mutation: m_lastGoodUdp = msec() left out of the request)
HandleUDPUnstamped(size, ok) ==
    HandleUDPWith(size, ok, CryptGateOpen(now, lastGoodUdp), lastGoodUdp, UNCHANGED statVars)
\* a datagram that is no ping echo
HandleUDP(size, ok) ==
    HandleUDPWith(size, ok, CryptGateOpen(now, lastGoodUdp), now, UNCHANGED statVars)
\* a ping echo that took timeDelta back and forth
HandleUDPPing(timeDelta) ==
    /\ udpPingStats.count < MaxPings
    /\ HandleUDPWith(UdpPingSize + CryptTagSize, TRUE, CryptGateOpen(now, lastGoodUdp), now,
                     /\ udpPingStats' = UdpPingEcho(udpPingStats, timeDelta)
                     /\ UNCHANGED tcpPingStats)

\* ------------------------------------------------------- inbound messages
Receiving == TimersRun /\ tcpState = "open" /\ tls = "active"

\* HandlePing; stats: what it does to the statistics of the TCP pings
HandlePingWith(good, stats) ==
    /\ Receiving
    /\ stats
    /\ inFlightTcpPings' = 0
    /\ IF cryptoInit
       THEN /\ remoteGood' = good
            /\ hasUdp' = UdpMode(hasUdp, good, localGood, now, timeSinceJoin)
       ELSE UNCHANGED <<remoteGood, hasUdp>>
    /\ hFlips' = IF hasUdp' # hasUdp THEN Min({hFlips + 1, MaxFlips}) ELSE hFlips
    /\ hQuiet' = 0
    /\ Silent("HandlePing")
    /\ UNCHANGED <<now, connVars, chanVars, listenVars, pendingVoiceTargetUpdates, storeVars,
                   nextPing, timeSinceJoin, cryptoInit, localGood, handles, failure,
                   hSetChannel, hJoined, hCreated, hServerListens, hAdded, hFlapped, hNetted,
                   hHeld, hArmed, discVars, sessVars, voiceVars, cryptVars, udpPingStats,
                   retryVars>>
\* a Ping of the server, where the statistics of the TCP pings are not followed
HandlePing(good) == HandlePingWith(good, UNCHANGED tcpPingStats)
\* a Ping of the server that took timeDelta back and forth
HandlePingTimed(good, timeDelta, hasTimestamp) ==
    /\ tcpPingStats.count < MaxPings
    /\ HandlePingWith(good, tcpPingStats' = TcpPingCounted(tcpPingStats, timeDelta, hasTimestamp))

\* CryptSetup carrying the key: m_crypto becomes initialized
HandleCryptSetup ==
    /\ Receiving /\ ~cryptoInit
    /\ cryptoInit' = TRUE
    /\ Silent("HandleCryptSetup")
    /\ UNCHANGED <<now, connVars, chanVars, listenVars, pendingVoiceTargetUpdates, storeVars,
                   pingVars, hasUdp, localGood, remoteGood, histVars, extVars>>

\* a datagram that decrypts: m_crypto.m_localGood counts it (HandleUDP, where
\* m_lastGoodUdp is read, has the time of the datagram as well)
UdpGood ==
    /\ cryptoInit /\ localGood < MaxGood
    /\ localGood' = localGood + 1
    /\ Silent("UdpGood")
    /\ UNCHANGED <<now, connVars, chanVars, listenVars, pendingVoiceTargetUpdates, storeVars,
                   pingVars, hasUdp, cryptoInit, remoteGood, histVars, extVars>>

StoreStep(name) ==
    /\ Receiving
    /\ Silent(name)
    /\ StoreChanged
    /\ UNCHANGED <<now, connVars, chanVars, listenVars, pendingVoiceTargetUpdates, pingVars,
                   udpVars>>

HandleChannelState(id, name) ==
    /\ IF id \in DOMAIN channels THEN channels[id] # name ELSE TRUE
    /\ channels' = With(channels, id, name)
    /\ UNCHANGED <<users, session>>
    /\ StoreStep("HandleChannelState")

HandleChannelRemove(id) ==
    /\ id \in DOMAIN channels
    /\ \A s \in DOMAIN users : users[s].channelId # id
    /\ channels' = Without(channels, id)
    /\ UNCHANGED <<users, session>>
    /\ StoreStep("HandleChannelRemove")

HandleUserState(s, name, ch) ==
    /\ ch \in DOMAIN channels
    /\ IF s \in DOMAIN users THEN users[s] # [name |-> name, channelId |-> ch] ELSE TRUE
    /\ users' = With(users, s, [name |-> name, channelId |-> ch])
    /\ UNCHANGED <<channels, session>>
    /\ StoreStep("HandleUserState")

HandleUserRemove(s) ==
    /\ s \in DOMAIN users
    /\ users' = Without(users, s)
    /\ UNCHANGED <<channels, session>>
    /\ StoreStep("HandleUserRemove")

HandleServerSync(s) ==
    /\ session = 0 /\ s \in DOMAIN users
    /\ session' = s
    /\ UNCHANGED <<channels, users>>
    /\ StoreStep("HandleServerSync")

\* ------------------------------------------------ m_idleTimer's handler
SendAll(connected, tlsState, msgs) == IF SendOk(connected, tlsState) THEN msgs ELSE <<>>

\* the listen ids the server holds after a tick's listen delta
ApplyListens(held, msgs) ==
    IF msgs = <<>> THEN held
    ELSE (held \cup msgs[1].listening_channel_add) \ msgs[1].listening_channel_remove

IdleActive ==
    LET ch == ChannelStep(curManualChannel, lastManualChannel, channels, session)
        li == ListenStep(curChannelListens, lastChannelListens, channels, session)
        vt == VoiceTargetStep(pendingVoiceTargetUpdates, users, channels)
        due == PingDue(now, nextPing)
        timedOut == due /\ PingTimedOut(inFlightTcpPings, now, timeSinceJoin)
        connected == isConnected /\ ~timedOut
    IN  /\ lastManualChannel' = SelfTrack(ch.last, users, channels, session)
        /\ lastChannelListens' = li.last
        /\ pendingVoiceTargetUpdates' = vt.pending
        /\ isConnected' = connected
        /\ isConnecting' = (isConnecting /\ ~timedOut)
        /\ inFlightTcpPings' = IF due THEN inFlightTcpPings + 1 ELSE inFlightTcpPings
        /\ nextPing' = IF due THEN now + kPingInterval ELSE nextPing
        /\ sent' = SendAll(isConnected, tls, ch.msgs) \o SendAll(isConnected, tls, li.msgs)
                   \o SendAll(isConnected, tls, vt.msgs)
                   \o (IF due THEN Send(connected, tls, PingMsg(now, localGood)) ELSE <<>>)
        /\ udpSent' = IF due THEN SendUDP(cryptoInit, UdpPingSize) ELSE <<>>
        /\ idleTimer' = now + IdlePeriod
        /\ step' = "IdleActive"
        /\ failure' = IF timedOut THEN "PingTimeout" ELSE failure
        /\ hSetChannel' = FALSE
        /\ hJoined' = (hSetChannel /\ \E i \in DOMAIN ch.msgs : IsMove(ch.msgs[i]))
        /\ hCreated' = IF ch.msgs = <<>> THEN hCreated
                       ELSE IF IsCreate(ch.msgs[1]) THEN "created"
                       ELSE IF hCreated = "created" THEN "joined" ELSE "no"
        /\ hServerListens' = ApplyListens(hServerListens, li.msgs)
        /\ hAdded' = {} /\ hFlapped' = {}
        /\ hNetted' = hFlapped \ lastChannelListens
        /\ hHeld' = hHeld \cap DOMAIN pendingVoiceTargetUpdates
        /\ hQuiet' = Min({hQuiet + 1, MaxInFlightPings})
        /\ hArmed' = (hArmed /\ ~timedOut)
        /\ hRetry' = IF /\ SelfChannelName(users, channels, session)
                              \notin {"", curManualChannel}
                        /\ ch.msgs # <<>>
                     THEN Min({hRetry + 1, MaxRetry}) ELSE 0
        /\ UNCHANGED <<now, work, addressSet, tcp, tcpState, tls, connectTimer,
                       curManualChannel, curChannelListens, storeVars, timeSinceJoin,
                       udpVars, handles, hFlips, discVars, sessVars, voiceVars, cryptVars,
                       statVars>>

\* the reconnect branch of the idle timer handler
IdleReconnect ==
    /\ connectTimer' = now + ReconnectDelay
    /\ idleTimer' = Off
    /\ Silent("IdleReconnect")
    /\ hHeld' = DOMAIN pendingVoiceTargetUpdates
    /\ hArmed' = TRUE
    /\ UNCHANGED <<now, work, addressSet, isConnecting, isConnected, tcp, tcpState, tls,
                   chanVars, listenVars, pendingVoiceTargetUpdates, storeVars, pingVars,
                   udpVars, handles, failure, hSetChannel, hJoined, hCreated,
                   hServerListens, hAdded, hFlapped, hNetted, hFlips, hQuiet, extVars>>

IdleNothing ==
    /\ idleTimer' = now + IdlePeriod
    /\ Silent("IdleNothing")
    /\ hHeld' = DOMAIN pendingVoiceTargetUpdates
    /\ UNCHANGED <<now, work, addressSet, isConnecting, isConnected, tcp, tcpState, tls,
                   connectTimer, chanVars, listenVars, pendingVoiceTargetUpdates, storeVars,
                   pingVars, udpVars, handles, failure, hSetChannel, hJoined, hCreated,
                   hServerListens, hAdded, hFlapped, hNetted, hFlips, hQuiet, hArmed, extVars>>

IdleTimerFire ==
    /\ TimerDue(idleTimer)
    /\ IF IsActive(tls, isConnected) THEN IdleActive
       ELSE IF addressSet THEN IdleReconnect
       ELSE IdleNothing

\* ------------------------------------------------------------------- time
\* msec() moves on once the loop has run what is due: its callbacks, its
\* timers and the close callbacks of the handles it closed.  Time is counted
\* from the first call of the facade: before it no timer runs and nothing
\* reads msec().
AdvanceTo(ticks) ==
    /\ (addressSet \/ hCalls > 0) /\ work = <<>>
    /\ tcpState \notin {"cancelling", "closing"}
    /\ TimersRun
    /\ now + IdlePeriod <= ticks * IdlePeriod
    /\ now' = now + IdlePeriod
    /\ Silent("Advance")
    /\ UNCHANGED <<connVars, chanVars, listenVars, pendingVoiceTargetUpdates, storeVars,
                   pingVars, udpVars, histVars, extVars>>

Advance == AdvanceTo(MaxTicks)
\* msec() in steps of FineStep once the crypto state is set up (no timer is
\* due earlier than the next multiple of IdlePeriod), with a server that
\* accepts, shakes hands and sends CryptSetup at once
AdvanceFine ==
    /\ (addressSet \/ hCalls > 0) /\ work = <<>>
    /\ tcpState \notin {"cancelling", "closing"}
    /\ TimersRun
    /\ ~cryptoInit => /\ tcpState # "connecting" /\ ~(tcpState = "open" /\ tls = "handshake")
                      /\ ~(tcpState = "open" /\ tls = "active")
    /\ now' = now + (IF cryptoInit THEN FineStep ELSE IdlePeriod)
    /\ now' <= CryptTicks * IdlePeriod
    /\ Silent("Advance")
    /\ UNCHANGED <<connVars, chanVars, listenVars, pendingVoiceTargetUpdates, storeVars,
                   pingVars, udpVars, histVars, extVars>>
AdvanceShort == AdvanceTo(ShortTicks)
AdvanceListen == AdvanceTo(ListenTicks)
AdvanceFlush == AdvanceTo(FlushTicks)
AdvanceDisc == AdvanceTo(DiscTicks)
AdvanceHandshake == AdvanceTo(HandshakeTicks)
AdvanceResolve == AdvanceTo(ResolveTicks)
\* the same, with a server that accepts and shakes hands at once
AdvancePrompt ==
    /\ tcpState # "connecting" /\ ~(tcpState = "open" /\ tls = "handshake")
    /\ AdvanceTo(MaxTicks)

\* msec() past the last value the model counts to: every time the program
\* holds is compared with msec() only, so the clock stays where it is and the
\* times held move back by one period (those already in the past stay there)
Earlier(t) == IF t = Off THEN Off ELSE IF t >= IdlePeriod THEN t - IdlePeriod ELSE 0
AdvanceOnAt(ticks) ==
    /\ addressSet /\ work = <<>>
    /\ TimersRun
    /\ tcpState # "connecting" /\ ~(tcpState = "open" /\ tls = "handshake")
    /\ now = ticks * IdlePeriod
    /\ connectTimer' = Earlier(connectTimer) /\ idleTimer' = Earlier(idleTimer)
    /\ nextPing' = Earlier(nextPing) /\ timeSinceJoin' = Earlier(timeSinceJoin)
    /\ Silent("Advance")
    /\ UNCHANGED <<now, work, addressSet, isConnecting, isConnected, tcp, tcpState, tls,
                   chanVars, listenVars, pendingVoiceTargetUpdates, storeVars,
                   inFlightTcpPings, udpVars, histVars, extVars>>
AdvanceOn == AdvanceOnAt(MaxTicks)

\* ------------------------------------------------------- specifications
Connecting == ConnectAsync \/ ConnectWork \/ ConnectTimerFire \/ ConnectEvent \/ OnActivated

Failures == ErrorEvent \/ EndEvent \/ OnAlert

Facade ==
    \/ \E n \in JoinNames : SetChannel(n)
    \/ \E n \in ListenNames : AddListenChannel(n)
    \/ \E n \in ListenNames : RemoveListenChannel(n)
    \/ \E i \in VoiceTargetIds, u \in SUBSET UserNames, c \in SUBSET ListenNames :
          UpdateVoiceTarget(i, [users |-> u, channels |-> c])

Inbound ==
    \/ \E g \in GoodValues : HandlePing(g)
    \/ HandleCryptSetup \/ UdpGood
    \/ \E id \in ChanIds, n \in StoreNames : HandleChannelState(id, n)
    \/ \E id \in ChanIds : HandleChannelRemove(id)
    \/ \E s \in Sessions, n \in UserNames, c \in ChanIds : HandleUserState(s, n, c)
    \/ \E s \in Sessions : HandleUserRemove(s)
    \/ \E s \in Sessions : HandleServerSync(s)

Next == Connecting \/ IdleTimerFire \/ Advance \/ Failures \/ Facade \/ Inbound

Spec == Init /\ [][Next]_vars

\* the channel reconciliation: SetChannel against the channels and our own
\* user as the server announces them
NextChan ==
    \/ Connecting \/ IdleTimerFire \/ AdvanceShort
    \/ \E n \in JoinNames : SetChannel(n)
    \/ \E id \in ChanIds, n \in JoinNames \cup {""} : HandleChannelState(id, n)
    \/ \E c \in ChanIds : HandleUserState(Min(Sessions), "u1", c)
    \/ HandleServerSync(Min(Sessions))

SpecChan == InitWith(FALSE) /\ [][NextChan]_vars

\* the same across a connection that fails and is made again, with a server
\* that announces two channels and puts us in one of them
AdvanceRejoin ==
    /\ tcpState # "connecting" /\ ~(tcpState = "open" /\ tls = "handshake")
    /\ AdvanceTo(ListenTicks)
FirstError == handles = 1 /\ tcpState = "open" /\ ErrorEvent
NextRejoin ==
    \/ Connecting \/ IdleTimerFire \/ AdvanceRejoin \/ FirstError
    \/ \E n \in JoinNames : SetChannel(n)
    \/ HandleChannelState(0, "Root")
    \/ \E n \in {"A", ""} : HandleChannelState(MaxChanId, n)
    \/ \E c \in ChanIds : HandleUserState(Min(Sessions), "u1", c)
    \/ HandleServerSync(Min(Sessions))

SpecRejoin == InitWith(FALSE) /\ [][NextRejoin]_vars

\* the listen reconciliation: the listen calls against channels that come, are
\* renamed and go
NextListen ==
    \/ Connecting \/ IdleTimerFire \/ AdvanceShort
    \/ \E n \in ListenNames : AddListenChannel(n)
    \/ \E n \in ListenNames : RemoveListenChannel(n)
    \/ \E id \in ChanIds, n \in ListenNames : HandleChannelState(id, n)
    \/ \E id \in ChanIds : HandleChannelRemove(id)

SpecListen == InitWith(FALSE) /\ [][NextListen]_vars

\* the listen calls over a connection that is lost and made again; every
\* channel arrives once, under a name of its own
NewChannel(id, name) ==
    /\ id \notin DOMAIN channels
    /\ \A c \in DOMAIN channels : channels[c] # name
    /\ HandleChannelState(id, name)
NextRelisten ==
    \/ Connecting \/ IdleTimerFire \/ AdvanceListen \/ EndEvent
    \/ \E n \in ListenNames : AddListenChannel(n)
    \/ RemoveListenChannel("A")
    \/ \E id \in ChanIds, n \in ListenNames : NewChannel(id, n)

SpecRelisten == InitWith(FALSE) /\ [][NextRelisten]_vars

\* the same with one loss of the connection, timers that fire, a clock that
\* moves on and a server that accepts, shakes hands, announces its channels
\* and answers every Ping before msec() moves on
Answered == tcpState = "open" /\ tls = "active" => inFlightTcpPings = 0
AdvanceAnswered == Answered /\ AdvanceRejoin
AdvanceOnListen == Answered /\ AdvanceOnAt(ListenTicks)
Announce == \E id \in ChanIds, n \in ListenNames : NewChannel(id, n)
NextRelistenFair ==
    \/ Connecting \/ IdleTimerFire \/ AdvanceAnswered \/ AdvanceOnListen
    \/ handles = 1 /\ EndEvent
    \/ HandlePing(0)
    \/ AddListenChannel("A") \/ RemoveListenChannel("A")
    \/ Announce

SpecRelistenFair ==
    /\ InitWith(FALSE) /\ [][NextRelistenFair]_vars
    /\ WF_vars(ConnectTimerFire) /\ WF_vars(IdleTimerFire) /\ WF_vars(AdvanceAnswered)
    /\ WF_vars(AdvanceOnListen) /\ WF_vars(ConnectEvent) /\ WF_vars(OnActivated)
    /\ WF_vars(HandlePing(0)) /\ WF_vars(Announce)

\* the voice-target flush: configs queued while the session is up, closed by
\* an alert, and up again
VoiceTargetConfigs ==
    {[users |-> {}, channels |-> {"A"}], [users |-> UserNames, channels |-> ListenNames]}
NextFlush ==
    \/ Connecting \/ IdleTimerFire \/ AdvanceFlush \/ OnAlert
    \/ \E i \in VoiceTargetIds, c \in VoiceTargetConfigs : UpdateVoiceTarget(i, c)
    \/ \E id \in ChanIds : HandleChannelState(id, "A")
    \/ \E s \in Sessions : HandleUserState(s, "u1", Min(ChanIds))

SpecFlush == InitWith(FALSE) /\ [][NextFlush]_vars

\* the UDP/TCP mode: server Pings against the crypto state's counters
NextUdp ==
    \/ Connecting \/ IdleTimerFire \/ AdvancePrompt
    \/ \E g \in GoodValues : HandlePing(g)
    \/ HandleCryptSetup \/ UdpGood

SpecUdp == InitWith(FALSE) /\ [][NextUdp]_vars

\* the ping timeout: a server that answers the Pings or does not
NextTimeout ==
    \/ Connecting \/ IdleTimerFire \/ Advance
    \/ HandlePing(0)

SpecTimeout == InitWith(FALSE) /\ [][NextTimeout]_vars

\* the ping cadence: the same, with or without UDP and the crypto state set up
NextPinging ==
    \/ Connecting \/ IdleTimerFire \/ Advance
    \/ HandlePing(0) \/ HandleCryptSetup

SpecPinging == Init /\ [][NextPinging]_vars

\* the reconnect: every failure of a connection but the last one's, with timers
\* that fire, a clock that moves on and a server that answers a connection it
\* has not failed
NextReconnect ==
    \/ Connecting \/ IdleTimerFire \/ AdvancePrompt \/ AdvanceOn \/ HandlePing(0)
    \/ handles < MaxAttempts /\ (ErrorEvent \/ EndEvent \/ OnAlert)

SpecReconnect ==
    /\ InitWith(FALSE) /\ [][NextReconnect]_vars
    /\ WF_vars(ConnectTimerFire) /\ WF_vars(IdleTimerFire) /\ WF_vars(AdvancePrompt)
    /\ WF_vars(AdvanceOn) /\ WF_vars(ConnectEvent) /\ WF_vars(OnActivated)

\* connections that fail and are replaced, with handshakes of any duration
NextHandshake ==
    \/ Connecting \/ IdleTimerFire \/ AdvanceHandshake
    \/ ErrorEvent \/ EndEvent \/ OnAlert

SpecHandshake == InitWith(FALSE) /\ [][NextHandshake]_vars

\* the same for long enough that a timer armed for one connection is due
\* during the next one
NextStale ==
    \/ Connecting \/ IdleTimerFire \/ AdvanceListen
    \/ ErrorEvent \/ EndEvent \/ OnAlert

SpecStale == InitWith(FALSE) /\ [][NextStale]_vars

\* disconnect(): every interleaving of the caller's steps with the loop's
NextDisconnect ==
    \/ Connecting \/ IdleTimerFire \/ AdvanceDisc
    \/ ErrorEvent \/ EndEvent \/ OnAlert
    \/ DisconnectAsync \/ DisconnectEnqueue
    \/ \E field \in ConnectionInfoFields : DisconnectClear(field)
    \/ DisconnectWork \/ CancelledEvent \/ CloseEvent

SpecDisconnect ==
    /\ InitWith(FALSE) /\ [][NextDisconnect]_vars
    /\ WF_vars(ConnectWork) /\ WF_vars(DisconnectEnqueue) /\ WF_vars(DisconnectWork)
    /\ WF_vars(CancelledEvent) /\ WF_vars(CloseEvent)

\* the completion of disconnect(): the calls, the loop's work and the socket
NextResolve ==
    \/ Connecting \/ IdleTimerFire \/ AdvanceResolve \/ ErrorEvent
    \/ DisconnectAsync \/ DisconnectEnqueue
    \/ \E field \in ConnectionInfoFields : DisconnectClear(field)
    \/ DisconnectWork \/ CancelledEvent \/ CloseEvent

SpecResolve ==
    /\ InitWith(FALSE) /\ [][NextResolve]_vars
    /\ WF_vars(ConnectWork) /\ WF_vars(DisconnectEnqueue) /\ WF_vars(DisconnectWork)
    /\ WF_vars(CancelledEvent) /\ WF_vars(CloseEvent)

\* the same with a caller that no timer overtakes: no time passes between the
\* steps of a DisconnectAsync call
NextDisconnectBrisk ==
    \/ Connecting \/ IdleTimerFire \/ (dcPc = "idle" /\ AdvanceDisc)
    \/ ErrorEvent \/ EndEvent \/ OnAlert
    \/ DisconnectAsync \/ DisconnectEnqueue
    \/ \E field \in ConnectionInfoFields : DisconnectClear(field)
    \/ DisconnectWork \/ CancelledEvent \/ CloseEvent

SpecDisconnectBrisk ==
    /\ InitWith(FALSE) /\ [][NextDisconnectBrisk]_vars
    /\ WF_vars(ConnectWork) /\ WF_vars(DisconnectEnqueue) /\ WF_vars(DisconnectWork)
    /\ WF_vars(CancelledEvent) /\ WF_vars(CloseEvent)

\* SendVoice over the TCP tunnel in every state of the connection
NextSend ==
    \/ Connecting \/ IdleTimerFire \/ AdvanceResolve
    \/ ErrorEvent \/ EndEvent \/ OnAlert
    \/ DisconnectAsync \/ DisconnectEnqueue
    \/ \E field \in ConnectionInfoFields : DisconnectClear(field)
    \/ DisconnectWork \/ CancelledEvent \/ CloseEvent
    \/ \E size \in {1, kMaxUdpPacket} : SendVoice(size)
    \/ SendLocked

SpecSend == InitWith(FALSE) /\ [][NextSend]_vars

\* voice and datagrams of every size, out and in
NextVoice ==
    \/ Connecting \/ IdleTimerFire \/ AdvanceShort
    \/ HandleCryptSetup
    \/ \E size \in VoiceSizes : SendVoice(size)
    \/ SendLocked
    \/ \E size \in UdpInSizes, ok \in BOOLEAN : HandleUDP(size, ok)

SpecVoice == Init /\ [][NextVoice]_vars

\* voice while the server's Pings and the datagrams received switch the mode
NextRouting ==
    \/ Connecting \/ IdleTimerFire \/ AdvanceResolve
    \/ HandleCryptSetup \/ ErrorEvent
    \/ HandlePing(MaxGood)
    \/ HandleUDP(UdpPingSize + CryptTagSize, TRUE)
    \/ \E size \in VoiceSizes : SendVoice(size)
    \/ SendLocked

SpecRouting == Init /\ [][NextRouting]_vars

\* datagrams that decrypt or do not, FineStep apart, on a connection that may
\* fail before the first of them
EarlyError == cryptoInit /\ hUdpIn = "none" /\ ErrorEvent
NextCrypt ==
    \/ Connecting \/ IdleTimerFire \/ AdvanceFine
    \/ HandleCryptSetup \/ EarlyError
    \/ \E ok \in BOOLEAN : HandleUDP(UdpPingSize + CryptTagSize, ok)

SpecCrypt == InitWith(FALSE) /\ [][NextCrypt]_vars

\* ping echoes over UDP and the server's Pings, with and without a timestamp
NextStats ==
    \/ Connecting \/ IdleTimerFire \/ AdvanceShort
    \/ HandleCryptSetup
    \/ \E timeDelta \in Deltas : HandleUDPPing(timeDelta)
    \/ \E timeDelta \in Deltas, hasTimestamp \in BOOLEAN :
          HandlePingTimed(0, timeDelta, hasTimestamp)

SpecStats == InitWith(FALSE) /\ [][NextStats]_vars

\* ------------------------------------------------------------ properties
Moves(msgs) == {i \in DOMAIN msgs : IsMove(msgs[i])}
Creates(msgs) == {i \in DOMAIN msgs : IsCreate(msgs[i])}
\* exactly one channel-move UserState, to channel c, and no ChannelState
OneMoveTo(msgs, c) ==
    /\ Cardinality(Moves(msgs)) = 1
    /\ \A i \in Moves(msgs) : msgs[i].channel_id = c
    /\ Creates(msgs) = {}
NoChannelTraffic(msgs) == Moves(msgs) = {} /\ Creates(msgs) = {}
\* our own session sits in a channel whose non-empty name is not the desired one
SelfElsewhere ==
    /\ session \in DOMAIN users
    /\ users[session].channelId \in DOMAIN channels
    /\ channels[users[session].channelId] \notin {"", curManualChannel}

\* C1 as claimed: after an accepted SetChannel(x), the next active tick with a
\* channel named x in the store sends exactly one UserState with channel_id =
\* id(x) and no ChannelState; a second active tick, with no SetChannel and no
\* inbound state change in between, sends no channel move and no ChannelState.
C1_AsClaimed ==
    [][step' = "IdleActive" =>
         /\ (hSetChannel /\ FindCh(curManualChannel, channels) # NoChannel
               => OneMoveTo(sent', FindCh(curManualChannel, channels)))
         /\ (hJoined => NoChannelTraffic(sent'))]_vars

\* C1 as the code has it: the join is sent on the next active tick when x also
\* differs from lastManualChannel; the second tick is silent unless our own
\* session sits in another channel with a non-empty name (self-channel tracking
\* then puts lastManualChannel back and the join is sent again).
C1_JoinOnNextTick ==
    [][step' = "IdleActive" =>
         /\ (hSetChannel /\ curManualChannel # lastManualChannel
               /\ FindCh(curManualChannel, channels) # NoChannel
               => OneMoveTo(sent', FindCh(curManualChannel, channels)))
         /\ (hJoined /\ ~SelfElsewhere => NoChannelTraffic(sent'))]_vars

\* the tick after an accepted SetChannel has sent the join
C1_Witness == step = "IdleActive" /\ hJoined /\ Moves(sent) # {}

\* C2 as claimed: with the desired name different from lastManualChannel, a
\* non-empty store and no channel of that name, an active tick sends exactly one
\* ChannelState{parent=0, name=desired, temporary} and no channel move; once a
\* channel of that name is in the store, the next active tick sends the join.
CreateCase ==
    /\ curManualChannel # lastManualChannel /\ DOMAIN channels # {}
    /\ FindCh(curManualChannel, channels) = NoChannel
OneCreate(msgs, name) ==
    /\ Cardinality(Creates(msgs)) = 1
    /\ \A i \in Creates(msgs) : msgs[i] = ChannelStateCreate(name)
    /\ Moves(msgs) = {}
C2_AsClaimed ==
    [][step' = "IdleActive" =>
         /\ (CreateCase => OneCreate(sent', curManualChannel))
         /\ (hCreated = "created" /\ FindCh(curManualChannel, channels) # NoChannel
               => OneMoveTo(sent', FindCh(curManualChannel, channels)))]_vars

\* C2 as the code has it: the join follows on the next active tick at which
\* lastManualChannel differs from the desired name, which self-channel tracking
\* brings about when our own session sits in a channel with another, non-empty name.
C2_CreateThenJoin ==
    [][step' = "IdleActive" =>
         /\ (CreateCase => OneCreate(sent', curManualChannel))
         /\ (hCreated = "created" /\ FindCh(curManualChannel, channels) # NoChannel
               /\ curManualChannel # lastManualChannel
               => OneMoveTo(sent', FindCh(curManualChannel, channels)))
         /\ (CreateCase /\ SelfElsewhere => lastManualChannel' # curManualChannel)]_vars

\* the create was sent earlier, the channel arrived, and this tick sent the join
C2_Witness == step = "IdleActive" /\ hCreated = "joined" /\ Moves(sent) # {}

\* the ids the store resolves a set of names to
IdsOf(names) == {id \in DOMAIN channels : \E n \in names : FindCh(n, channels) = id}
Listens(msgs) == {i \in DOMAIN msgs : IsListen(msgs[i])}

\* C3: an active tick at which every name of the current listen set resolves
\* leaves lastChannelListens equal to the current listen set, and the listen
\* deltas emitted so far, applied in order to the listen set the server holds
\* for the session, yield exactly the ids of the current listen set.
C3_ListenConvergence ==
    [][step' = "IdleActive" /\ (\A n \in curChannelListens : FindCh(n, channels) # NoChannel)
         => /\ lastChannelListens' = curChannelListens
            /\ hServerListens' = IdsOf(curChannelListens)]_vars

\* C4: an active tick emits at most one listen-delta UserState; its adds are
\* ids of names in cur \ last, its removes ids of names in last \ cur; the id of
\* a name added and removed again since the last active tick, and not in
\* lastChannelListens, is in neither.
C4_NettedPerTick ==
    [][step' = "IdleActive" =>
         /\ Cardinality(Listens(sent')) <= 1
         /\ \A i \in Listens(sent') :
               /\ sent'[i].listening_channel_add
                     \subseteq IdsOf(curChannelListens \ lastChannelListens)
               /\ sent'[i].listening_channel_remove
                     \subseteq IdsOf(lastChannelListens \ curChannelListens)
               /\ IdsOf(hFlapped \ lastChannelListens)
                     \cap (sent'[i].listening_channel_add
                           \cup sent'[i].listening_channel_remove) = {}]_vars

\* a tick sent a listen add while a name that was added and removed since the
\* tick before, and has a channel in the store, stayed off the wire
C4_Witness ==
    /\ step = "IdleActive" /\ IdsOf(hNetted) # {}
    /\ \E i \in Listens(sent) : sent[i].listening_channel_add # {}

VoiceTargets(msgs) == {i \in DOMAIN msgs : IsVoiceTarget(msgs[i])}
\* the sessions of the store's users with a name in names
SessionsNamed(names) == {u \in DOMAIN users : users[u].name \in names}
\* the names of names that some channel of the store has
Resolved(names) == {n \in names : \E id \in DOMAIN channels : channels[id] = n}
\* msgs holds exactly one VoiceTarget with id idx
OneTargetFor(msgs, idx) == Cardinality({i \in VoiceTargets(msgs) : msgs[i].id = idx}) = 1

\* C5 as claimed: for every pending entry an active tick emits one VoiceTarget
\* with id = idx whose first sub-target holds the sessions of the store users
\* named in users, and which has exactly one further sub-target per resolved
\* name of channels, each holding the id of a channel of such a name.
C5_AsClaimed ==
    [][step' = "IdleActive" =>
         \A idx \in DOMAIN pendingVoiceTargetUpdates :
            /\ OneTargetFor(sent', idx)
            /\ \A i \in VoiceTargets(sent') : sent'[i].id = idx =>
                  /\ sent'[i].sessions = SessionsNamed(pendingVoiceTargetUpdates[idx].users)
                  /\ \A id \in sent'[i].channel_targets :
                        channels[id] \in pendingVoiceTargetUpdates[idx].channels
                  /\ Cardinality(sent'[i].channel_targets)
                       = Cardinality(Resolved(pendingVoiceTargetUpdates[idx].channels))]_vars

\* C5 as the code has it: one further sub-target per channel of the store whose
\* name is in channels (two channels of one name give two sub-targets).
C5_FlushShape ==
    [][step' = "IdleActive" =>
         \A idx \in DOMAIN pendingVoiceTargetUpdates :
            /\ OneTargetFor(sent', idx)
            /\ \A i \in VoiceTargets(sent') : sent'[i].id = idx =>
                  /\ sent'[i].sessions = SessionsNamed(pendingVoiceTargetUpdates[idx].users)
                  /\ \A id \in DOMAIN channels :
                        id \in sent'[i].channel_targets
                          <=> channels[id] \in pendingVoiceTargetUpdates[idx].channels
                  /\ sent'[i].channel_targets \subseteq DOMAIN channels]_vars

\* a tick flushed a config that names a user of the store, a channel of the
\* store and a channel the store does not have
C5_Witness ==
    /\ step = "IdleActive"
    /\ \E i \in VoiceTargets(sent) :
          /\ sent[i].sessions # {} /\ sent[i].channel_targets # {}
          /\ \A id \in DOMAIN channels : channels[id] # "B"

\* C6: an active tick emits exactly one VoiceTarget per entry queued when it
\* starts, and no other, and leaves the map empty; an inactive tick emits none
\* and leaves the map as it is.
C6_DrainedOnce ==
    [][/\ step' = "IdleActive" =>
             /\ \A idx \in DOMAIN pendingVoiceTargetUpdates : OneTargetFor(sent', idx)
             /\ Cardinality(VoiceTargets(sent'))
                  = Cardinality(DOMAIN pendingVoiceTargetUpdates)
             /\ DOMAIN pendingVoiceTargetUpdates' = {}
       /\ step' \in {"IdleReconnect", "IdleNothing"} =>
             /\ VoiceTargets(sent') = {}
             /\ pendingVoiceTargetUpdates' = pendingVoiceTargetUpdates]_vars

\* the first active tick after an inactive one flushed what that one left queued
C6_Witness ==
    /\ step = "IdleActive" /\ DOMAIN pendingVoiceTargetUpdates = {}
    /\ \E i \in VoiceTargets(sent) : sent[i].id \in hHeld

\* the age of the connection, as HandlePing and the tick compute it
Age == now - timeSinceJoin

\* C7: a Ping reporting good = 0 at an age above 20 s takes hasUdp from true to
\* false, further such Pings leave it false, a Ping with remote and local good
\* above 3 takes it back to true, and no Ping at an age of at most 20 s takes
\* it to false.
C7_ModeSwitch ==
    [][\A g \in GoodValues : HandlePing(g) =>
         /\ (hasUdp /\ g = 0 /\ Age > JoinGrace => ~hasUdp')
         /\ (~hasUdp /\ g = 0 => ~hasUdp')
         /\ (~hasUdp /\ g > UdpGoodThreshold /\ localGood > UdpGoodThreshold => hasUdp')
         /\ (hasUdp /\ Age <= JoinGrace => hasUdp')]_vars

\* hasUdp went to true, fell back to false and is true again
C7_Witness == step = "HandlePing" /\ hasUdp /\ hFlips >= 3

\* C8 as claimed: at an age above 20 s, the fourth consecutive active tick
\* with no Ping from the server in between sets isConnected to false.
C8_AsClaimed ==
    [][step' = "IdleActive" /\ hQuiet >= MaxInFlightPings - 1 /\ Age > JoinGrace
         => ~isConnected']_vars

\* C8 as the code has it: a tick at which a ping is due (at most one per
\* kPingInterval), that finds four or more pings unanswered at an age above
\* 20 s, sets isConnected to false; a TCP connection attempt after the first
\* is made only with a ping timeout outstanding, which the attempt settles.
C8_PingTimeout ==
    [][/\ step' = "IdleActive" /\ PingDue(now, nextPing)
            /\ inFlightTcpPings >= MaxInFlightPings /\ Age > JoinGrace
          => ~isConnected' /\ failure' = "PingTimeout"
       /\ step' = "IdleActive" /\ ~PingDue(now, nextPing) => nextPing' = nextPing
       /\ handles' # handles
          => /\ handles' = handles + 1 /\ failure' = "none"
             /\ handles = 0 \/ failure = "PingTimeout"]_vars

\* the connection attempt that follows the ping timeout
C8_Witness == step = "ConnectTimerFire" /\ handles = 2 /\ tcpState = "connecting"

\* C9: only a tick at which a ping is due, that starts with four or more pings
\* in flight and more than 20 s after the ConnectEvent, takes isConnected from
\* true to false; every Ping and every ConnectEvent sets inFlightTcpPings to 0.
C9_TimeoutGuard ==
    [][/\ step' = "IdleActive" /\ isConnected /\ ~isConnected'
          => /\ PingDue(now, nextPing)
             /\ inFlightTcpPings >= MaxInFlightPings /\ Age > JoinGrace
       /\ step' \in {"HandlePing", "ConnectEvent"} => inFlightTcpPings' = 0]_vars

\* a tick has reset a connection whose server stopped answering
C9_Witness == step = "IdleActive" /\ ~isConnected /\ failure = "PingTimeout"

\* the connection has failed, no attempt was made since, and the bounds leave
\* room for one
Failed ==
    /\ failure # "none" /\ addressSet
    /\ handles < MaxAttempts
    /\ now + RecoverTicks * IdlePeriod <= MaxTicks * IdlePeriod

\* after a failure with an address configured a new TCP connection attempt is made
AttemptFollows == Failed ~> (failure = "none")

\* after a failure the connect timer gets armed with the idle timer stopped,
\* unless an attempt made meanwhile has brought up a working session
ArmedUnlessReplaced ==
    Failed ~> (hArmed \/ (failure = "none" /\ IsActive(tls, isConnected)))

\* C10: after a failure of the connection (ErrorEvent, EndEvent, alert, ping
\* timeout) with an address configured, the connect timer gets armed at
\* +2500 ms with the idle timer stopped, and a new TCP connection attempt is made.
C10_ReconnectLiveness == (Failed ~> hArmed) /\ AttemptFollows

\* C11: once a DisconnectAsync work item has run, and until ConnectAsync is
\* called again, the connect timer is not armed and no TCP handle is created.
C11_DisconnectCancels ==
    [][hDisc /\ hDisc' => connectTimer' = Off /\ handles' = handles]_vars

\* C12: the completion event of a DisconnectAsync call is set by the CloseEvent
\* of the socket when the work item found one, and by the work item itself when
\* it found none; it is set only once a work item has stopped the timers, and
\* every call's completion event gets set.
C12_Resolution ==
    /\ [][/\ hResolved' # hResolved
             => \/ /\ step' = "CloseEvent" /\ closeListeners > 0
                   /\ hResolved' = hResolved + closeListeners
                \/ /\ step' = "DisconnectWork" /\ tcp = NoTcp
                   /\ idleTimer' = Off /\ connectTimer' = Off
                   /\ hResolved' = hResolved + 1
          /\ step' = "DisconnectWork" /\ tcp # NoTcp => hResolved' = hResolved
          /\ hResolved' <= hWorkRun']_vars
    /\ \A n \in 1..MaxDisconnects :
          (hCalls >= n /\ (hCalls > n \/ dcPc # "enqueue")) ~> (hResolved >= n)

\* both ways: a call made with no socket and a call resolved by the CloseEvent
C12_Witness ==
    /\ step = "CloseEvent" /\ hResolved = 2 /\ hWorkRun = 2 /\ handles = 1

\* the TCP connection is established and its TLS session not yet activated
TlsHandshaking == tcpState = "open" /\ tls = "handshake"

\* C13: while a connection is in its TLS handshake the idle timer is not
\* running, so no tick runs the reconnect branch during the handshake.
C13_NoTickInHandshake ==
    /\ [](TlsHandshaking => idleTimer = Off)
    /\ [][TlsHandshaking => step' \notin {"IdleReconnect", "IdleActive", "IdleNothing"}]_vars

\* without disconnect() every TLS activation finds isConnected set and sends both
ActivationSendsHello == [][step' = "OnActivated" => sent' = Hello]_vars

\* C14: a TLS activation sends Version and then Authenticate{opus} and nothing
\* else (nothing at all when isConnected was cleared under the handshake), and
\* a later step sends control messages on a session only after these two.
C14_HandshakeOrder ==
    [][/\ step' = "OnActivated" => sent' = IF isConnected THEN Hello ELSE <<>>
       /\ sent' # <<>> /\ step' # "OnActivated" => hGreeted /\ tls = "active"]_vars

\* a tick has sent a Ping on a session opened by a reconnect
C14_Witness ==
    /\ step = "IdleActive" /\ handles > 1 /\ hGreeted /\ isConnected
    /\ \E i \in DOMAIN sent : IsPing(sent[i])

\* the program's state, without the histories
clientState == <<now, work, addressSet, isConnecting, isConnected, tcp, tcpState, tls,
                 connectTimer, idleTimer, chanVars, listenVars, pendingVoiceTargetUpdates,
                 storeVars, pingVars, udpVars>>

\* C15: a step hands control messages to the TLS session only when isConnected
\* is true and the session is active at that moment (OnActivated is the
\* moment the session becomes active), and a SendVoice that is dropped
\* changes no client state.
C15_SendGuard ==
    [][/\ sent' # <<>> => isConnected /\ (tls = "active" \/ step' = "OnActivated")
       /\ step' \in {"SendVoice", "SendLocked"} /\ sent' = <<>> /\ udpSent' = <<>>
             => clientState' = clientState]_vars

\* what the loop's own handlers send is sent connected and active
LoopSendsGuarded ==
    [][sent' # <<>> /\ step' # "SendLocked"
          => isConnected /\ (tls = "active" \/ step' = "OnActivated")]_vars
\* Send hands a message over only with isConnected read as true before and the
\* session active under the mutex, and a dropped send changes no client state
SendChecksBoth ==
    [][/\ step' = "SendLocked" => svPc = "checked" /\ (sent' # <<>> <=> tls = "active")
       /\ step' = "SendVoice" /\ ~hasUdp => sent' = <<>> /\ (svPc' = "checked" <=> isConnected)
       /\ step' \in {"SendVoice", "SendLocked"} /\ sent' = <<>> /\ udpSent' = <<>>
             => clientState' = clientState]_vars
\* SendVoice was dropped in each state of the connection
DroppedBeforeConnect == step = "SendVoice" /\ svPc = "idle" /\ handles = 0
DroppedInHandshake == step = "SendLocked" /\ sent = <<>> /\ tls = "handshake"
DroppedAfterDisconnect == step = "SendLocked" /\ sent = <<>> /\ tls = "closed"
SentUnconnected == step = "SendLocked" /\ sent # <<>> /\ ~isConnected

\* C16: every datagram a step hands to the UDP socket is at most kMaxUdpPacket
\* bytes long, tag included, and a received datagram longer than kMaxUdpPacket
\* is dropped before Decrypt with nothing changed.
C16_UdpLength ==
    [][/\ \A i \in DOMAIN udpSent' : udpSent'[i] <= kMaxUdpPacket
       /\ step' = "HandleUDP" /\ hUdpInSize' > kMaxUdpPacket
             => hDecrypted' = 0 /\ sent' = <<>> /\ clientState' = clientState
                /\ lastGoodUdp' = lastGoodUdp]_vars

\* the longest datagram SendUDP hands over is kMaxUdpPacket + CryptTagSize
SentWithinTagged ==
    [][\A i \in DOMAIN udpSent' : udpSent'[i] <= kMaxUdpPacket + CryptTagSize]_vars
\* the receiving half
OversizeDropped ==
    [][step' = "HandleUDP" /\ hUdpInSize' > kMaxUdpPacket
          => hDecrypted' = 0 /\ sent' = <<>> /\ clientState' = clientState
             /\ lastGoodUdp' = lastGoodUdp]_vars
SentOversize == step = "SendVoice" /\ udpSent = <<kMaxUdpPacket + CryptTagSize>>
DroppedOversize == step = "HandleUDP" /\ hUdpIn = "oversize" /\ cryptoInit

\* HandleUDP found its datagram failing Decrypt
DecryptFailed == step = "HandleUDP" /\ hUdpIn \in {"gated", "request"}

\* C17: a CryptSetup request triggered by a decrypt failure comes more than
\* kPingInterval after the request triggered before it.
C17_CryptSetupRate ==
    [][DecryptFailed' /\ hUdpIn' = "request" /\ hCryptReq # LongAgo
          => now - hCryptReq > kPingInterval]_vars
\* a third request, with datagrams that decrypted among the failing ones
C17_Witness ==
    /\ DecryptFailed /\ hUdpIn = "request" /\ hCryptCount = 2
    /\ hGoodAt # LongAgo /\ hGoodAt < hCryptReq

\* C18 as claimed: a failing datagram triggers a request whenever none was
\* triggered during the kPingInterval before it, whenever the last datagram
\* decrypted.
C18_AsClaimed ==
    [][DecryptFailed' /\ now - hCryptReq > kPingInterval => hUdpIn' = "request"]_vars
\* C18: a failing datagram triggers a request exactly when more than
\* kPingInterval has passed since the last request triggered and since the last
\* datagram that decrypted; the request is handed to the TLS session when the
\* control connection is up, and a gated failure sends nothing.
C18_Resync ==
    [][DecryptFailed'
          => /\ hUdpIn' = "request" <=> /\ now - hCryptReq > kPingInterval
                                        /\ now - hGoodAt > kPingInterval
             /\ sent' = IF hUdpIn' = "request" /\ isConnected /\ tls = "active"
                        THEN <<CryptSetupRequest>> ELSE <<>>]_vars
\* the third failure, FineStep over kPingInterval after the first, asks again
\* after the second, half way, was gated
C18_Witness ==
    /\ DecryptFailed /\ hUdpIn = "request" /\ hCryptCount = 2 /\ hGoodAt = LongAgo
    /\ sent = <<CryptSetupRequest>> /\ now = IdlePeriod + kPingInterval + FineStep
\* a failure within kPingInterval of a datagram that decrypted, with no request before
GatedByGood == DecryptFailed /\ hUdpIn = "gated" /\ hCryptCount = 0
\* a request triggered with the control connection down
RequestDropped == DecryptFailed /\ hUdpIn = "request" /\ sent = <<>>

RECURSIVE SumHeld(_, _)
\* the sum of the samples in the slots of held
SumHeld(pings, held) ==
    IF held = {} THEN 0
    ELSE pings[Min(held)] + SumHeld(pings, held \ {Min(held)})
\* the average is the arithmetic mean of the samples the ring holds
IsMeanOfHeld(st) ==
    st.average[1] * Cardinality(st.held) = SumHeld(st.pings, st.held) * st.average[2]
\* after the first sample d: count 1, average d, variance 0
FirstSampleStats(st) ==
    st.count = 1 => st.average[1] = st.pings[0] * st.average[2] /\ st.variance[1] = 0

\* C19: after each UDP ping echo and each timestamped TCP Ping the average is
\* the mean of the samples the ring holds, the one just stored included; after
\* the first sample d the statistics are count 1, average d, variance 0.
C19_PingStats ==
    [][/\ udpPingStats' # udpPingStats
             => IsMeanOfHeld(udpPingStats') /\ FirstSampleStats(udpPingStats')
       /\ tcpPingStats'.pings # tcpPingStats.pings
             => IsMeanOfHeld(tcpPingStats') /\ FirstSampleStats(tcpPingStats')]_vars

\* the first echo, 50 ms back and forth, leaves count 1 and average 0
FirstEchoAverageZero ==
    /\ step = "HandleUDP" /\ udpPingStats.count = 1 /\ udpPingStats.pings[0] = 50
    /\ udpPingStats.average = <<0, 1>>
\* the ring has moved down: the fourth echo sits in the last slot
RingMoved ==
    /\ udpPingStats.count = RingSize + 1 /\ udpPingStats.held = Ring
    /\ udpPingStats.pings[RingSize - 1] = 90 /\ udpPingStats.pings[0] = 50
\* the count and the variance of the first sample are as claimed
FirstCountAndVariance ==
    [][udpPingStats' # udpPingStats /\ udpPingStats.count = 0
          => udpPingStats'.count = 1 /\ udpPingStats'.variance[1] = 0]_vars

\* an active tick at which a ping is due
PingDueTick == step' = "IdleActive" /\ PingDue(now, nextPing)
\* C20 as claimed: every ping-due active tick sends a control Ping and a UDP
\* ping, counts one more Ping in flight and sets nextPing.
C20_AsClaimed ==
    [][PingDueTick
          => /\ Count(sent', IsPing) = 1
             /\ inFlightTcpPings' = inFlightTcpPings + 1
             /\ udpSent' = <<UdpPingSize + CryptTagSize>>
             /\ nextPing' = now + kPingInterval]_vars
\* C20: every ping-due active tick counts one more Ping in flight and sets
\* nextPing to now + kPingInterval; it sends one control Ping, as its last
\* message, unless it detects the ping timeout, and then none; it sends one UDP
\* ping of UdpPingSize bytes plus tag when the crypto state is initialised,
\* with or without UDP in use, and none before.  A tick with no ping due
\* does none of these.
C20_PingTick ==
    [][/\ PingDueTick
             => /\ inFlightTcpPings' = inFlightTcpPings + 1
                /\ nextPing' = now + kPingInterval
                /\ Count(sent', IsPing)
                      = IF PingTimedOut(inFlightTcpPings, now, timeSinceJoin) THEN 0 ELSE 1
                /\ \A i \in DOMAIN sent' : IsPing(sent'[i]) => i = Len(sent')
                /\ udpSent' = IF cryptoInit THEN <<UdpPingSize + CryptTagSize>> ELSE <<>>
       /\ step' = "IdleActive" /\ ~PingDue(now, nextPing)
             => /\ Count(sent', IsPing) = 0 /\ udpSent' = <<>>
                /\ inFlightTcpPings' = inFlightTcpPings /\ nextPing' = nextPing]_vars
\* the tick that detected the ping timeout sent the UDP ping, with UDP not in
\* use, and no control Ping
C20_Witness ==
    /\ step = "IdleActive" /\ failure = "PingTimeout" /\ ~isConnected
    /\ inFlightTcpPings = MaxInFlightPings + 1 /\ nextPing = now + kPingInterval
    /\ ~hasUdp /\ udpSent = <<UdpPingSize + CryptTagSize>> /\ sent = <<>>
\* a tick sent the control Ping and no UDP ping
PingWithoutUdpPing ==
    /\ step = "IdleActive" /\ ~cryptoInit /\ udpSent = <<>>
    /\ \E i \in DOMAIN sent : IsPing(sent[i])

IsTunnel(m) == m.type = "UDPTunnel"
\* C21 as claimed: every SendVoice call is transmitted, on the path m_hasUdp
\* selects at the call and on that path alone.
C21_AsClaimed ==
    [][/\ step' = "SendVoice" /\ hasUdp
             => udpSent' = <<hVoiceSize' + CryptTagSize>> /\ svPc' = "idle"
       /\ step' = "SendVoice" /\ ~hasUdp => udpSent' = <<>> /\ svPc' = "checked"
       /\ step' = "SendLocked"
             => sent' = <<UDPTunnel(hVoiceSize)>> /\ udpSent' = <<>> /\ ~hVoiceUdp
       /\ step' \notin {"SendVoice", "SendLocked"} => Count(sent', IsTunnel) = 0]_vars
\* C21: a SendVoice call is transmitted on at most one path, the one m_hasUdp
\* selects when the call reads it.  With m_hasUdp it is one datagram of
\* size + CryptTagSize if the crypto state is initialised and the size is at
\* most kMaxUdpPacket, and else nothing; without, it is one UDPTunnel message
\* of the same size if Send finds the connection up, and else nothing.
C21_Routing ==
    [][/\ step' = "SendVoice" /\ hasUdp
             => /\ udpSent' = IF cryptoInit /\ hVoiceSize' <= kMaxUdpPacket
                              THEN <<hVoiceSize' + CryptTagSize>> ELSE <<>>
                /\ sent' = <<>> /\ svPc' = "idle" /\ hVoiceUdp'
       /\ step' = "SendVoice" /\ ~hasUdp
             => /\ udpSent' = <<>> /\ sent' = <<>> /\ ~hVoiceUdp'
                /\ svPc' = "checked" <=> isConnected
       /\ step' = "SendLocked"
             => /\ ~hVoiceUdp /\ udpSent' = <<>>
                /\ sent' = IF tls = "active" THEN <<UDPTunnel(hVoiceSize)>> ELSE <<>>
       /\ step' \notin {"SendVoice", "SendLocked"} => Count(sent', IsTunnel) = 0]_vars
\* a call that read m_hasUdp as false is tunnelled after the mode switched to
\* UDP, and the call before it went out as a datagram or a tunnel message
C21_Witness ==
    /\ step = "SendLocked" /\ sent = <<UDPTunnel(1)>> /\ hasUdp /\ ~hVoiceUdp
    /\ hVoice = 2
\* a call with m_hasUdp set and the crypto state not set up goes nowhere
VoiceLost == step = "SendVoice" /\ hVoiceUdp /\ udpSent = <<>> /\ hVoiceSize = 1
\* a call went out as a datagram
VoiceDatagram == step = "SendVoice" /\ hVoiceUdp /\ udpSent = <<1 + CryptTagSize>>

\* C22: an active tick that finds our own session in a channel with a non-empty
\* name leaves lastManualChannel equal to that name; and an active tick that
\* starts with lastManualChannel equal to that name and the desired channel
\* another one sends exactly one join UserState to the desired channel, or,
\* when no channel has the desired name, exactly one create ChannelState.
C22_SelfTrackRetry ==
    [][step' = "IdleActive"
          => /\ SelfChannelName(users, channels, session) # ""
                   => lastManualChannel' = SelfChannelName(users, channels, session)
             /\ SelfElsewhere
                /\ lastManualChannel = SelfChannelName(users, channels, session)
                   => IF FindCh(curManualChannel, channels) # NoChannel
                      THEN OneMoveTo(sent', FindCh(curManualChannel, channels))
                      ELSE OneCreate(sent', curManualChannel)]_vars
\* tick after tick the join is sent again on the connection made after a
\* failure, with the server keeping us in Root
C22_Witness ==
    /\ step = "IdleActive" /\ hRetry = MaxRetry /\ handles = 2
    /\ SelfChannelName(users, channels, session) = "Root" /\ curManualChannel = "A"
    /\ lastManualChannel = "Root" /\ Moves(sent) # {}

\* the connect timer's handler closes m_tcp and opens another handle
HandleReplaced == step' = "ConnectTimerFire" /\ tcp' # tcp /\ tcp # NoTcp
\* C23: the connect timer's handler replaces the handle of a connection that
\* was established (ConnectEvent) only if that connection has had a failure
\* since (TCP error or end, alert, ping timeout).
C23_NoStaleTeardown ==
    [][HandleReplaced /\ tcpState = "open" => failure # "none"]_vars
\* the handle replaced was that of a session in use
HealthyReplaced ==
    [][HandleReplaced /\ tcpState = "open" /\ tls = "active" /\ isConnected
          => failure # "none"]_vars

\* the session of a connection made by the reconnect is up
Reconnected == handles >= 2 /\ tcpState = "open" /\ tls = "active"
\* the name is in the current listen set and its channel resolves
ListenedTo(n) == n \in curChannelListens /\ FindCh(n, channels) # NoChannel
\* C24: on the session of a connection made after the loss of an earlier one,
\* a name of the current listen set whose channel resolves is eventually sent
\* as listening_channel_add (its id gets into the listen set the server holds
\* for the new session), unless the name is removed or the session is lost.
C24_RelistenAfterReconnect ==
    \A n \in ListenNames :
        (Reconnected /\ ListenedTo(n))
            ~> (\/ FindCh(n, channels) \in hServerListens
                \/ ~Reconnected \/ n \notin curChannelListens)
\* the same on the first session, where it holds
FirstSessionListens ==
    \A n \in ListenNames :
        (handles = 1 /\ tcpState = "open" /\ tls = "active" /\ ListenedTo(n))
            ~> (\/ FindCh(n, channels) \in hServerListens
                \/ ~(handles = 1 /\ tcpState = "open" /\ tls = "active")
                \/ n \notin curChannelListens)
\* a name added after the reconnect does get sent: an active tick of the new
\* session leaves every resolving name of cur \ last in the server's set
AddedAfterReconnect ==
    [][step' = "IdleActive" /\ handles >= 2
         => IdsOf(curChannelListens \ lastChannelListens) \subseteq hServerListens']_vars
====
